---- MODULE Spec2Model ----
(***************************************************************************)
(* A model of three parts of hiku:                                         *)
(*   - the type algebra of hiku/types.py (type nodes are classes built by  *)
(*     metaclasses; equality, hash and parameterization),                  *)
(*   - the result projector Denormalize of hiku/denormalize/base.py,       *)
(*   - the graph validator ValidateGraph of hiku/introspection/graphql.py. *)
(* Python values are encoded uniformly as records [kind, tag, items].      *)
(***************************************************************************)
EXTENDS Integers, Sequences, FiniteSets

VARIABLES
    \* ---- type algebra (hiku/types.py)
    ctors,      \* the module-level constructor classes, by name
    prev,       \* the type node built before the last one
    cur,        \* the type node built last
    lastop,     \* the last __getitem__ call: receiver, parameters, outcome
    nops,       \* number of successful or failed constructor calls so far
    \* ---- result projector (hiku/denormalize/base.py)
    query,      \* the query Node handed to process
    result,     \* the root result proxy handed to __init__
    _type,      \* Denormalize._type, a deque of record types
    _data,      \* Denormalize._data, a deque of proxies
    _res,       \* Denormalize._res, a deque of output dicts
    pc,         \* per caller: where its process call stands
    frames,     \* per caller: its Python call stack inside visit
    ret,        \* per caller: the value its last process call returned
    exc,        \* per caller: the exception its last process call raised
    ncalls,     \* per caller: number of process calls started
    nvisits,    \* per caller: visit_field and visit_link calls of its last process call
    \* ---- graph validator (hiku/introspection/graphql.py)
    graph,      \* the Graph handed to ValidateGraph.validate
    _path,      \* ValidateGraph._path
    _errors,    \* ValidateGraph._errors
    vframes,    \* the validator's call stack inside visit
    vpc,        \* where the validate call stands
    raised,     \* the ValueError validate raised, with its lines (empty: none)
    \* ---- introspection (hiku/introspection/graphql.py)
    schema,     \* SchemaInfo: the graphs and directives GraphQLIntrospection got
    applied,    \* how apply(graph, [GraphQLIntrospection(...)]) ended
    at,         \* the meta-schema node whose identities the engine holds
    ids,        \* the identities it will hand to the next resolver
    call,       \* the last resolver call: function, identities, outcome
    hops,       \* number of resolver calls so far
    bound,      \* the graph given to apply and the graph it returned
    coro        \* the coroutine of the last call of an async resolver

typeVars == <<ctors, prev, cur, lastop, nops>>
projVars == <<query, result, _type, _data, _res, pc, frames, ret, exc, ncalls, nvisits>>
valVars  == <<graph, _path, _errors, vframes, vpc, raised>>
introVars == <<schema, applied, at, ids, call, hops, bound, coro>>
vars     == <<ctors, prev, cur, lastop, nops,
              query, result, _type, _data, _res, pc, frames, ret, exc, ncalls, nvisits,
              graph, _path, _errors, vframes, vpc, raised,
              schema, applied, at, ids, call, hops, bound, coro>>

(***************************************************************************)
(* Bounds of the model.                                                    *)
(***************************************************************************)
MaxOps == 3
MaxFields == 2
MaxItems == 2
MaxCalls == 2
MaxNodes == 2
MaxHops == 7

(***************************************************************************)
(* Python values.                                                          *)
(***************************************************************************)
PyVal(kind, tag, items) == [kind |-> kind, tag |-> tag, items |-> items]
PyNone == PyVal("none", "", <<>>)
PyStr(s) == PyVal("str", s, <<>>)
PyBool(b) == PyVal("bool", IF b THEN "True" ELSE "False", <<>>)
PyTuple(xs) == PyVal("tuple", "", xs)
PyList(xs) == PyVal("list", "", xs)
PyPair(k, v) == PyTuple(<<k, v>>)
\* dict and OrderedDict: the (key, value) pairs in insertion order
PyDict(pairs) == PyVal("dict", "", pairs)
PyODict(pairs) == PyVal("odict", "", pairs)
\* a class whose metaclass is meta and whose __dict__ holds the pairs
PyClass(meta, pairs) == PyVal("class", meta, pairs)

DictHas(d, k) == \E i \in 1..Len(d) : d[i].items[1] = k
DictGet(d, k) == d[CHOOSE i \in 1..Len(d) : d[i].items[1] = k].items[2]
DictSet(d, k, v) ==
    IF DictHas(d, k)
    THEN [i \in 1..Len(d) |-> IF d[i].items[1] = k THEN PyPair(k, v) ELSE d[i]]
    ELSE Append(d, PyPair(k, v))
DictKeys(d) == [i \in 1..Len(d) |-> d[i].items[1]]

\* the outcome of a call: the exception raised ("" for none) and the value
Ok(v) == [exc |-> "", val |-> v]
Raise(e) == [exc |-> e, val |-> PyNone]

(***************************************************************************)
(* hiku/types.py: the type algebra.  A type node is a class; its variant   *)
(* is its metaclass (tag) and its parameters live in its __dict__ (items). *)
(* The entries every class __dict__ shares with the constructor it was     *)
(* copied from (__module__, __doc__, ...) are left out.                    *)
(***************************************************************************)
Any == PyClass("AnyMeta", <<>>)
Boolean == PyClass("BooleanMeta", <<>>)
String == PyClass("StringMeta", <<>>)
Integer == PyClass("IntegerMeta", <<>>)
Float == PyClass("FloatMeta", <<>>)
Optional == PyClass("OptionalMeta", <<>>)
Sequence == PyClass("SequenceMeta", <<>>)
Mapping == PyClass("MappingMeta", <<>>)
Record == PyClass("RecordMeta", <<>>)
Callable == PyClass("CallableMeta", <<>>)
TypeRef == PyClass("TypeRefMeta", <<>>)

Constructors ==
    [Optional |-> Optional, Sequence |-> Sequence, Mapping |-> Mapping,
     Record |-> Record, Callable |-> Callable, TypeRef |-> TypeRef]

\* cls.__name__: the class statement's name, kept by every copy
ClassName(cls) ==
    CASE cls.tag = "AnyMeta" -> "Any"
      [] cls.tag = "BooleanMeta" -> "Boolean"
      [] cls.tag = "StringMeta" -> "String"
      [] cls.tag = "IntegerMeta" -> "Integer"
      [] cls.tag = "FloatMeta" -> "Float"
      [] cls.tag = "OptionalMeta" -> "Optional"
      [] cls.tag = "SequenceMeta" -> "Sequence"
      [] cls.tag = "MappingMeta" -> "Mapping"
      [] cls.tag = "RecordMeta" -> "Record"
      [] cls.tag = "CallableMeta" -> "Callable"
      [] cls.tag = "TypeRefMeta" -> "TypeRef"
      [] OTHER -> ""

\* isinstance(obj, <meta>): the metaclasses do not derive from each other
IsInstance(obj, meta) == obj.kind = "class" /\ obj.tag = meta

\* cls.__final__: the class's own entry, else TypingMeta.__final__ = False
TypingMeta_final(cls) ==
    /\ cls.kind = "class"
    /\ DictHas(cls.items, PyStr("__final__"))
    /\ DictGet(cls.items, PyStr("__final__")) = PyBool(TRUE)

RECURSIVE PyEq(_, _)
RECURSIVE DictEq(_, _)
RECURSIVE GenericMeta_eq(_, _)

\* dict.__eq__: the same keys with == values, in any order
DictEq(d1, d2) ==
    /\ Len(d1) = Len(d2)
    /\ \A i \in 1..Len(d1) :
          /\ DictHas(d2, d1[i].items[1])
          /\ PyEq(d1[i].items[2], DictGet(d2, d1[i].items[1]))

\* OrderedDict.__eq__ against an OrderedDict: dict equality and the same key order
ODictEq(d1, d2) ==
    /\ DictEq(d1, d2)
    /\ \A i \in 1..Len(d1) : d1[i].items[1] = d2[i].items[1]

\* GenericMeta.__eq__
GenericMeta_eqNoDict(cls, other) == other.kind = "class" /\ cls.tag = other.tag
GenericMeta_eq(cls, other) ==
    /\ other.kind = "class" /\ cls.tag = other.tag
    /\ DictEq(cls.items, other.items)

\* Python's a == b on the values of the model
PyEq(a, b) ==
    CASE a.kind = "class" -> GenericMeta_eq(a, b)
      [] a.kind # "class" /\ b.kind = "class" -> GenericMeta_eq(b, a)
      [] a.kind \in {"tuple", "list"} /\ b.kind # "class" ->
            /\ a.kind = b.kind /\ Len(a.items) = Len(b.items)
            /\ \A i \in 1..Len(a.items) : PyEq(a.items[i], b.items[i])
      [] a.kind = "odict" /\ b.kind # "class" ->
            \/ b.kind = "odict" /\ ODictEq(a.items, b.items)
            \/ b.kind = "dict" /\ DictEq(a.items, b.items)
      [] a.kind = "dict" /\ b.kind # "class" ->
            b.kind \in {"dict", "odict"} /\ DictEq(a.items, b.items)
      [] OTHER -> a.kind = b.kind /\ a.tag = b.tag

\* GenericMeta.__ne__
GenericMeta_ne(cls, other) == ~GenericMeta_eq(cls, other)

\* GenericMeta.__hash__ and TypingMeta.__hash__: hash(cls.__name__); the hash
\* of a string is modelled by the string
GenericMeta_hash(cls) == ClassName(cls)

\* iter(v) of the values that can be iterated; a str of the model has one character
IsIterable(v) == v.kind \in {"tuple", "list", "dict", "odict", "str"}
Iterate(v) ==
    IF v.kind \in {"tuple", "list"} THEN v.items
    ELSE IF v.kind \in {"dict", "odict"} THEN DictKeys(v.items)
    ELSE <<v>>
\* a, b = v
UnpackError(v, n) ==
    IF ~IsIterable(v) THEN "TypeError"
    ELSE IF Len(Iterate(v)) # n THEN "ValueError" ELSE ""

RECURSIVE OrderedDict(_)
\* OrderedDict(pairs): a repeated key keeps its first place and its last value
OrderedDict(pairs) ==
    IF pairs = <<>> THEN <<>>
    ELSE LET d == OrderedDict(SubSeq(pairs, 1, Len(pairs) - 1))
             p == Iterate(pairs[Len(pairs)])
         IN  DictSet(d, p[1], p[2])

RECURSIVE TypingMeta_getitem(_, _)

_maybe_typeref(typ) ==
    IF typ.kind = "str" THEN TypingMeta_getitem(TypeRef, typ).val ELSE typ

\* the __cls_init__ methods: the class with the attributes set, or the exception
OptionalMeta_cls_init(cls, type_) ==
    Ok(PyClass(cls.tag, DictSet(cls.items, PyStr("__type__"), _maybe_typeref(type_))))

SequenceMeta_cls_init(cls, item_type) ==
    Ok(PyClass(cls.tag, DictSet(cls.items, PyStr("__item_type__"), _maybe_typeref(item_type))))

MappingMeta_cls_init(cls, params) ==
    IF UnpackError(params, 2) # "" THEN Raise(UnpackError(params, 2))
    ELSE LET key_type == Iterate(params)[1]
             value_type == Iterate(params)[2]
         IN  Ok(PyClass(cls.tag,
                  DictSet(DictSet(cls.items, PyStr("__key_type__"), _maybe_typeref(key_type)),
                          PyStr("__value_type__"), _maybe_typeref(value_type))))

RecordMeta_cls_init(cls, field_types) ==
    LET hasItems == field_types.kind \in {"dict", "odict"}
        items == IF hasItems THEN field_types.items ELSE Iterate(field_types)
        bad == {i \in 1..Len(items) : UnpackError(items[i], 2) # ""}
    IN  IF ~hasItems /\ ~IsIterable(field_types) THEN Raise("TypeError")
        ELSE IF bad # {}
        THEN Raise(UnpackError(items[CHOOSE i \in bad : \A j \in bad : i <= j], 2))
        ELSE Ok(PyClass(cls.tag,
                  DictSet(cls.items, PyStr("__field_types__"),
                          PyODict(OrderedDict(
                              [i \in 1..Len(items) |->
                                  PyPair(Iterate(items[i])[1],
                                         _maybe_typeref(Iterate(items[i])[2]))])))))

CallableMeta_cls_init(cls, arg_types) ==
    IF ~IsIterable(arg_types) THEN Raise("TypeError")
    ELSE Ok(PyClass(cls.tag,
              DictSet(cls.items, PyStr("__arg_types__"),
                      PyList([i \in 1..Len(Iterate(arg_types)) |->
                                  _maybe_typeref(Iterate(arg_types)[i])]))))

\* __cls_init__(cls, *args): args are the positional arguments of the call
TypeRefMeta_cls_init(cls, args) ==
    IF Len(args) # 1 THEN Raise("AssertionError")
    ELSE Ok(PyClass(cls.tag, DictSet(cls.items, PyStr("__type_name__"), args[1])))

\* type_.__cls_init__(parameters), dispatched on the metaclass
cls_init(type_, parameters) ==
    CASE type_.tag = "OptionalMeta" -> OptionalMeta_cls_init(type_, parameters)
      [] type_.tag = "SequenceMeta" -> SequenceMeta_cls_init(type_, parameters)
      [] type_.tag = "MappingMeta" -> MappingMeta_cls_init(type_, parameters)
      [] type_.tag = "RecordMeta" -> RecordMeta_cls_init(type_, parameters)
      [] type_.tag = "CallableMeta" -> CallableMeta_cls_init(type_, <<parameters>>[1])
      [] type_.tag = "TypeRefMeta" -> TypeRefMeta_cls_init(type_, <<parameters>>)
      [] OTHER -> Raise("NotImplementedError")

\* TypingMeta.__getitem__: the outcome, the node built, and the receiver as
\* the call leaves it (recv)
GetitemNoFinalCheck(cls, parameters) ==
    LET type_ == PyClass(cls.tag, cls.items)
        init == cls_init(type_, parameters)
    IN  IF init.exc # "" THEN [exc |-> init.exc, val |-> PyNone, recv |-> cls]
        ELSE [exc |-> "",
              val |-> PyClass(init.val.tag,
                              DictSet(init.val.items, PyStr("__final__"), PyBool(TRUE))),
              recv |-> cls]
TypingMeta_getitem(cls, parameters) ==
    IF TypingMeta_final(cls) THEN [exc |-> "TypeError", val |-> PyNone, recv |-> cls]
    ELSE LET type_ == PyClass(cls.tag, cls.items)
             init == cls_init(type_, parameters)
         IN  IF init.exc # "" THEN [exc |-> init.exc, val |-> PyNone, recv |-> cls]
             ELSE [exc |-> "",
                   val |-> PyClass(init.val.tag,
                                   DictSet(init.val.items, PyStr("__final__"), PyBool(TRUE))),
                   recv |-> cls]

\* get_type(types, typ); types is a dict keyed by type name
get_type(types, typ) ==
    IF IsInstance(typ, "TypeRefMeta")
    THEN IF DictHas(types, DictGet(typ.items, PyStr("__type_name__")))
         THEN Ok(DictGet(types, DictGet(typ.items, PyStr("__type_name__"))))
         ELSE Raise("KeyError")
    ELSE Ok(typ)

(***************************************************************************)
(* The type algebra as a state machine: constructors are parameterized     *)
(* with X[parameters], and built nodes are parameterized again.            *)
(***************************************************************************)
TypingMetas ==
    {"OptionalMeta", "SequenceMeta", "MappingMeta", "RecordMeta", "CallableMeta",
     "TypeRefMeta"}

NoOp == [recv |-> PyNone, params |-> PyNone, exc |-> "", val |-> PyNone, after |-> PyNone]

\* the parameters tried on each constructor, right and wrong in number
ParamChoices(c) ==
    CASE c = "Optional" ->
            {String, Integer, PyStr("X"), prev, cur, PyTuple(<<String, Integer>>)}
      [] c = "Sequence" ->
            {String, cur, PyTuple(<<String, Integer>>)}
      [] c = "TypeRef" ->
            {PyStr("X"), PyStr("Y"), PyTuple(<<PyStr("X"), PyStr("Y")>>)}
      [] c = "Mapping" ->
            {PyTuple(<<String, Integer>>), PyTuple(<<Integer, String>>),
             PyTuple(<<String, cur>>), String, PyTuple(<<String, Integer, String>>)}
      [] c = "Record" ->
            {PyList(<<PyPair(PyStr("f"), String), PyPair(PyStr("g"), Integer)>>),
             PyList(<<PyPair(PyStr("g"), Integer), PyPair(PyStr("f"), String)>>),
             PyDict(<<PyPair(PyStr("f"), String), PyPair(PyStr("g"), Integer)>>),
             PyList(<<PyPair(PyStr("f"), cur)>>)}
      [] c = "Callable" ->
            {PyList(<<>>), PyList(<<String>>), PyList(<<String, cur>>)}

TypesInit ==
    /\ ctors = Constructors
    /\ prev = Integer
    /\ cur = String
    /\ lastop = NoOp
    /\ nops = 0

\* <Constructor>[p]
Parameterize ==
    \E c \in DOMAIN ctors : \E p \in ParamChoices(c) :
        LET r == TypingMeta_getitem(ctors[c], p)
        IN  /\ nops < MaxOps
            /\ nops' = nops + 1
            /\ ctors' = [ctors EXCEPT ![c] = r.recv]
            /\ lastop' = [recv |-> ctors[c], params |-> p, exc |-> r.exc,
                          val |-> r.val, after |-> r.recv]
            /\ IF r.exc = "" THEN prev' = cur /\ cur' = r.val
                             ELSE UNCHANGED <<prev, cur>>
            /\ UNCHANGED <<projVars, valVars, introVars>>

\* cur[p] on a node that was built by a constructor call
Reparameterize ==
    \E p \in {String, PyStr("X")} :
        LET r == TypingMeta_getitem(cur, p)
        IN  /\ nops < MaxOps
            /\ cur.tag \in TypingMetas
            /\ nops' = nops + 1
            /\ lastop' = [recv |-> cur, params |-> p, exc |-> r.exc,
                          val |-> r.val, after |-> r.recv]
            /\ IF r.exc = "" THEN prev' = r.recv /\ cur' = r.val
                             ELSE prev' = prev /\ cur' = r.recv
            /\ UNCHANGED <<ctors, projVars, valVars, introVars>>

TypesNext == Parameterize \/ Reparameterize

\* the parts of the state a specification does not use stay as they are here
TypesParked == ctors = Constructors /\ prev = Integer /\ cur = String /\ lastop = NoOp /\ nops = 0
ProjParked ==
    /\ query = <<>> /\ result = PyNone
    /\ _type = <<>> /\ _data = <<>> /\ _res = <<>>
    /\ pc = <<>> /\ frames = <<>> /\ ret = <<>> /\ exc = <<>> /\ ncalls = <<>>
    /\ nvisits = <<>>
ValParked ==
    /\ graph = <<>> /\ _path = <<>> /\ _errors = <<>>
    /\ vframes = <<>> /\ vpc = "idle" /\ raised = <<>>
IntroParked ==
    /\ schema = <<>> /\ applied = "" /\ at = "" /\ ids = <<>>
    /\ call = <<>> /\ hops = 0 /\ bound = <<>> /\ coro = <<>>

InitTypes == TypesInit /\ ProjParked /\ ValParked /\ IntroParked
SpecTypes == InitTypes /\ [][TypesNext]_vars

(***************************************************************************)
(* Claims about the type algebra.                                          *)
(***************************************************************************)
\* every type node the state holds or names
TypeNodes ==
    {prev, cur, String, Integer, Float} \cup {ctors[c] : c \in DOMAIN ctors}

\* C7: two type nodes are == exactly when they have the same metaclass and
\* recursively the same parameters (Record fields in the same order); == nodes
\* have the same hash, and != is the negation of ==.
C7_StructuralEquality ==
    \A a, b \in TypeNodes :
        /\ GenericMeta_eq(a, b) <=> (a = b)
        /\ GenericMeta_eq(a, b) => GenericMeta_hash(a) = GenericMeta_hash(b)
        /\ GenericMeta_ne(a, b) <=> ~GenericMeta_eq(a, b)

\* two nodes built by separate constructor calls, nested two levels, are ==
C7_Witness ==
    /\ nops = 3 /\ lastop.exc = ""
    /\ TypingMeta_final(prev) /\ GenericMeta_eq(prev, cur)
    /\ IsInstance(prev, "OptionalMeta")
    /\ TypingMeta_final(DictGet(prev.items, PyStr("__type__")))

\* C8: X[p] on a final node raises TypeError and leaves the node as it was;
\* on a constructor it returns a new final node and leaves the constructor
\* unparameterized.
C8_SingleAssignment ==
    /\ ctors = Constructors
    /\ \A c \in DOMAIN ctors : ~TypingMeta_final(ctors[c])
    /\ lastop.recv # PyNone =>
          /\ lastop.after = lastop.recv
          /\ TypingMeta_final(lastop.recv) =>
                lastop.exc = "TypeError" /\ lastop.val = PyNone
          /\ (~TypingMeta_final(lastop.recv) /\ lastop.exc = "") =>
                /\ TypingMeta_final(lastop.val)
                /\ lastop.val # lastop.recv
                /\ lastop.val.tag = lastop.recv.tag

\* a final Record node was parameterized again
C8_Witness ==
    /\ TypingMeta_final(lastop.recv)
    /\ IsInstance(lastop.recv, "RecordMeta")
    /\ lastop.exc = "TypeError"
    /\ cur = lastop.recv

\* the number of parameters of X[...]: the length of the tuple, else one
NParams(p) == IF p.kind = "tuple" THEN Len(p.items) ELSE 1
Arity(cls) == IF cls.tag = "MappingMeta" THEN 2 ELSE 1

\* C9: a constructor call with the wrong number of parameters raises an
\* error and builds no node (Optional, Sequence, TypeRef: one; Mapping: two).
C9_ArityChecked ==
    ( /\ lastop.recv # PyNone
      /\ ~TypingMeta_final(lastop.recv)
      /\ lastop.recv.tag \in {"OptionalMeta", "SequenceMeta", "TypeRefMeta", "MappingMeta"}
      /\ NParams(lastop.params) # Arity(lastop.recv) )
    => (lastop.exc # "" /\ lastop.val = PyNone)

(***************************************************************************)
(* hiku/denormalize/base.py: the result projector.                         *)
(*                                                                         *)
(* The schema: graph.__types__, the record types by name.  The root has a  *)
(* field, the three link shapes the projector supports, and fields of      *)
(* other types that a query may ask for as links.                          *)
(***************************************************************************)
RecordOf(pairs) == TypingMeta_getitem(Record, PyList(pairs)).val
OptionalOf(t) == TypingMeta_getitem(Optional, t).val
SequenceOf(t) == TypingMeta_getitem(Sequence, t).val
TypeRefOf(n) == TypingMeta_getitem(TypeRef, PyStr(n)).val

Types ==
    << PyPair(PyStr("__root__"), RecordOf(<<
           PyPair(PyStr("a"), Integer),
           PyPair(PyStr("m"), Integer),
           PyPair(PyStr("x"), TypeRefOf("X")),
           PyPair(PyStr("xs"), SequenceOf(TypeRefOf("X"))),
           PyPair(PyStr("ox"), OptionalOf(TypeRefOf("X"))),
           PyPair(PyStr("orec"), OptionalOf(RecordOf(<<PyPair(PyStr("b"), Integer)>>))),
           PyPair(PyStr("s"), String),
           PyPair(PyStr("ss"), SequenceOf(String)),
           PyPair(PyStr("u"), TypeRefOf("U")) >>)),
       PyPair(PyStr("X"), RecordOf(<<
           PyPair(PyStr("b"), Integer),
           PyPair(PyStr("c"), String),
           PyPair(PyStr("x"), TypeRefOf("X")) >>)) >>

\* hiku.query Field and Link: name, result_key (the alias, else the name), and
\* for a link the Node of its children
Field(name, key) == [kind |-> "Field", name |-> name, result_key |-> key, node |-> <<>>]
Link(name, key, node) == [kind |-> "Link", name |-> name, result_key |-> key, node |-> node]

\* queries on the record X
QB == <<Field("b", "b")>>
QCB == <<Field("c", "c"), Field("b", "k")>>
QNest == <<Link("x", "x", QB), Field("b", "b")>>
QM == <<Field("b", "b"), Field("m", "m")>>

\* the items a root query is made of; their result keys differ
Catalog ==
    { Field("a", "a"), Field("a", "z"), Field("m", "m"),
      Link("x", "x", QB), Link("x", "y", QCB),
      Link("xs", "xs", QNest), Link("ox", "ox", QCB),
      Link("orec", "orec", QB), Link("s", "s", QB), Link("ss", "ss", QB),
      Link("u", "u", QB), Link("xs", "xs", QM) }

RECURSIVE QueriesOfLen(_)
QueriesOfLen(n) ==
    IF n = 0 THEN {<<>>}
    ELSE {Append(q, it) : q \in QueriesOfLen(n - 1),
                          it \in Catalog} 
DistinctKeys(q) ==
    \A i, j \in 1..Len(q) : i # j => q[i].result_key # q[j].result_key
Queries ==
    {q \in UNION {QueriesOfLen(n) : n \in 1..MaxFields} : DistinctKeys(q)}

(***************************************************************************)
(* The result proxy the engine produces for a query (hiku.result.Proxy, an *)
(* external collaborator): keyed by result key; a field holds the value    *)
(* stored for the field's name in this object, a link holds a proxy, a     *)
(* list of proxies or None.  Storage order is the reverse of query order.  *)
(* The engine produced nothing for the field m.                            *)
(***************************************************************************)
Digits == <<"1", "2", "3", "4", "5", "6", "7", "8", "9">>
Scalar(name, path) == PyVal("scalar", name, path)
Proxy(pairs) == PyVal("proxy", "", pairs)
Reverse(s) == [i \in 1..Len(s) |-> s[Len(s) + 1 - i]]

FieldType(rec, name) ==
    DictGet(DictGet(rec.items, PyStr("__field_types__")).items, PyStr(name))

RECURSIVE Execute(_, _, _, _)
RECURSIVE LinkValue(_, _, _, _)
Execute(node, rec, path, v) ==
    Proxy(Reverse(SelectSeq(
        [i \in 1..Len(node) |->
            PyPair(PyStr(node[i].result_key),
                   IF node[i].kind = "Field"
                   THEN Scalar(node[i].name, path)
                   ELSE LinkValue(node[i], FieldType(rec, node[i].name), path, v))],
        LAMBDA p : p.items[1] # PyStr("m"))))
LinkValue(link, type_, path, v) ==
    LET here == Append(path, PyStr(link.name))
        target(t) == get_type(Types, t)
    IN  CASE IsInstance(type_, "TypeRefMeta") ->
                IF target(type_).exc # "" THEN PyNone
                ELSE Execute(link.node, target(type_).val, here, v)
          [] IsInstance(type_, "SequenceMeta") ->
                LET it == DictGet(type_.items, PyStr("__item_type__"))
                IN  PyList([j \in 1..v.n |->
                        IF IsInstance(it, "TypeRefMeta")
                        THEN Execute(link.node, target(it).val,
                                     Append(here, PyStr(Digits[j])), v)
                        ELSE Scalar(link.name, Append(here, PyStr(Digits[j])))])
          [] IsInstance(type_, "OptionalMeta") ->
                LET it == DictGet(type_.items, PyStr("__type__"))
                IN  IF v.null THEN PyNone
                    ELSE IF IsInstance(it, "TypeRefMeta")
                    THEN Execute(link.node, target(it).val, here, v)
                    ELSE Scalar(link.name, here)
          [] OTHER -> Scalar(link.name, here)

RootRecord == DictGet(Types, PyStr("__root__"))
Proxies(q) ==
    {Execute(q, RootRecord, <<>>, [n |-> n, null |-> b]) :
        n \in 0..MaxItems, b \in BOOLEAN}

(***************************************************************************)
(* Denormalize.  An instance state is [type, data, res] (the three deques) *)
(* with exc, the exception a step raised ("" for none).                    *)
(***************************************************************************)
Top(st) == st[Len(st)]
Pop(st) == SubSeq(st, 1, Len(st) - 1)
SetTop(st, v) == [st EXCEPT ![Len(st)] = v]

Inst(type, data, res) == [type |-> type, data |-> data, res |-> res, exc |-> ""]
\* a raise that first puts the stacks back as __init__ made them
FailUnwinds(S, e) ==
    [type |-> <<S.type[1]>>, data |-> <<S.data[1]>>, res |-> <<>>, exc |-> e]
Fail(S, e) == [S EXCEPT !.exc = e]

\* data[key] on a value of the proxy: Proxy.__getitem__, else not subscriptable
Subscript(d, key) ==
    IF d.kind = "proxy"
    THEN IF DictHas(d.items, PyStr(key)) THEN Ok(DictGet(d.items, PyStr(key)))
         ELSE Raise("KeyError")
    ELSE Raise("TypeError")

\* the dict keeping its newest key first
ResSetFront(res, key, value) ==
    SetTop(res, PyDict(<<PyPair(PyStr(key), value)>> \o
                       SelectSeq(Top(res).items, LAMBDA p : p.items[1] # PyStr(key))))

\* self._res[-1][key] = value
ResSet(res, key, value) ==
    SetTop(res, PyDict(DictSet(Top(res).items, PyStr(key), value)))
ResSetByName(S, obj, value) == ResSet(S.res, obj.name, value)
ResSetByKey(S, obj, value) == ResSet(S.res, obj.result_key, value)

\* visit_field reading the bottom of the data stack instead of its top
VisitFieldFromBottom(S, obj) ==
    LET v == Subscript(S.data[1], obj.result_key)
    IN  IF v.exc # "" THEN Fail(S, v.exc)
        ELSE [S EXCEPT !.res = ResSetByKey(S, obj, v.val)]

\* Denormalize.visit_field
Denormalize_visit_field(S, obj) ==
    LET v == Subscript(Top(S.data), obj.result_key)
    IN  IF v.exc # "" THEN Fail(S, v.exc)
        ELSE IF S.res = <<>> THEN Fail(S, "IndexError")
        ELSE [S EXCEPT !.res = ResSetByKey(S, obj, v.val)]

\* type_ = self._type[-1].__field_types__[obj.name]
LinkType(S, obj) ==
    LET ft == DictGet(Top(S.type).items, PyStr("__field_types__")).items
    IN  IF DictHas(ft, PyStr(obj.name)) THEN Ok(DictGet(ft, PyStr(obj.name)))
        ELSE Raise("KeyError")

\* lines 49-51 and 73-75: push the record type ref names, an empty dict and
\* the proxy at the link's key
PushFrame(S, obj, ref) ==
    LET t == get_type(Types, ref)
        S1 == [S EXCEPT !.type = Append(@, t.val), !.res = Append(@, PyDict(<<>>))]
        d == Subscript(Top(S.data), obj.result_key)
    IN  IF t.exc # "" THEN Fail(S, t.exc)
        ELSE IF d.exc # "" THEN Fail(S1, d.exc)
        ELSE [S1 EXCEPT !.data = Append(@, d.val)]

\* a pop that leaves the record type on the type stack
PopKeepsType(S, obj) ==
    [S EXCEPT !.data = Pop(@),
              !.res = ResSet(Pop(S.res), obj.result_key, Top(S.res))]
\* lines 53-55 and 77-79: pop the proxy, attach the popped dict under the
\* link's key in the dict below it, pop the record type
PopFrame(S, obj) ==
    IF Len(S.res) < 2 \/ S.data = <<>> \/ S.type = <<>> THEN Fail(S, "IndexError")
    ELSE [S EXCEPT !.data = Pop(@),
                   !.res = ResSet(Pop(S.res), obj.result_key, Top(S.res)),
                   !.type = Pop(@)]

\* the TypeRef branch of visit_link up to super().visit_link(obj)
VisitTypeRef(S, obj, type_) == PushFrame(S, obj, type_)

\* the Optional branch: None is attached at once, anything else is pushed
\* like a TypeRef after the assert on the inner type
VisitOptionalAlwaysPush(S, obj, type_) ==
    PushFrame(S, obj, DictGet(type_.items, PyStr("__type__")))
VisitOptional(S, obj, type_) ==
    LET d == Subscript(Top(S.data), obj.result_key)
        inner == DictGet(type_.items, PyStr("__type__"))
    IN  IF d.exc # "" THEN Fail(S, d.exc)
        ELSE IF d.val = PyNone THEN [S EXCEPT !.res = ResSetByKey(S, obj, PyNone)]
        ELSE IF ~IsInstance(inner, "TypeRefMeta") THEN Fail(S, "AssertionError")
        ELSE PushFrame(S, obj, inner)

\* the Sequence branch up to the loop: the assert, the push of the item
\* record type and the iterator over the proxy's list (its)
VisitSequence(S, obj, type_) ==
    LET item_type == DictGet(type_.items, PyStr("__item_type__"))
        t == get_type(Types, item_type)
        d == Subscript(Top(S.data), obj.result_key)
    IN  IF ~IsInstance(item_type, "TypeRefMeta") THEN Fail(S, "AssertionError")
        ELSE IF t.exc # "" THEN Fail(S, t.exc)
        ELSE IF d.exc # "" THEN Fail([S EXCEPT !.type = Append(@, t.val)], d.exc)
        ELSE IF d.val.kind # "list"
        THEN Fail([S EXCEPT !.type = Append(@, t.val)], "TypeError")
        ELSE [S EXCEPT !.type = Append(@, t.val)]

\* lines 61-62: one turn of the loop before the children are visited
ItemBegin(S, item) ==
    [S EXCEPT !.res = Append(@, PyDict(<<>>)), !.data = Append(@, item)]
\* lines 64-65: after the children; the popped dict goes to items
ItemEnd(S) ==
    IF S.res = <<>> \/ S.data = <<>> THEN Fail(S, "IndexError")
    ELSE [S EXCEPT !.data = Pop(@), !.res = Pop(@)]
\* lines 66-67
SequenceEnd(S, obj, items) ==
    IF S.res = <<>> \/ S.type = <<>> THEN Fail(S, "IndexError")
    ELSE [S EXCEPT !.res = ResSetByKey(S, obj, PyList(items)), !.type = Pop(@)]

\* a frame of the Python call stack: visit_node looping over node at index i,
\* or visit_link of obj in branch br waiting for its children; a Sequence
\* frame iterates its at index i and has collected acc
NodeFrame(node) ==
    [fn |-> "visit_node", node |-> node, i |-> 1, obj |-> Field("", ""),
     br |-> "", its |-> <<>>, acc |-> <<>>]
LinkFrame(obj, br, its) ==
    [fn |-> "visit_link", node |-> obj.node, i |-> 1, obj |-> obj,
     br |-> br, its |-> its, acc |-> <<>>]

\* the instance as a caller finds it
Self == Inst(_type, _data, _res)

\* a step leaves the instance as S; a raised exception unwinds the caller's
\* call stack and ends its process call
Commit(t, S, newFrames) ==
    /\ _type' = S.type /\ _data' = S.data /\ _res' = S.res
    /\ IF S.exc = ""
       THEN /\ frames' = [frames EXCEPT ![t] = newFrames]
            /\ UNCHANGED <<pc, exc>>
       ELSE /\ frames' = [frames EXCEPT ![t] = <<>>]
            /\ pc' = [pc EXCEPT ![t] = "error"]
            /\ exc' = [exc EXCEPT ![t] = S.exc]
    /\ UNCHANGED <<query, result, ret, ncalls, typeVars, valVars, introVars>>

\* the step is a call of visit_field or visit_link, or a step inside one
Visited(t) == nvisits' = [nvisits EXCEPT ![t] = @ + 1]
InsideVisit(t) == UNCHANGED nvisits

\* the caller's innermost frame is a visit_node loop standing at an item
AtItem(t) ==
    /\ pc[t] = "visit" /\ frames[t] # <<>>
    /\ Top(frames[t]).fn = "visit_node"
    /\ Top(frames[t]).i <= Len(Top(frames[t]).node)
Item(t) == Top(frames[t]).node[Top(frames[t]).i]
\* the caller's innermost visit_node loop has run out
NodeDone(t) ==
    /\ pc[t] = "visit" /\ frames[t] # <<>>
    /\ Top(frames[t]).fn = "visit_node"
    /\ Top(frames[t]).i > Len(Top(frames[t]).node)
\* a loop that stays at its item
AdvanceStays(fs) == fs
\* the call stack with the innermost loop moved to its next item
Advance(fs) == SetTop(fs, [Top(fs) EXCEPT !.i = @ + 1])

AtLink(t, meta) ==
    /\ AtItem(t) /\ Item(t).kind = "Link"
    /\ LinkType(Self, Item(t)).exc = ""
    /\ IsInstance(LinkType(Self, Item(t)).val, meta)

\* process, line 38: assert not self._res
ProcessAccepted(t) ==
    /\ pc[t] \in {"idle", "done", "error"} /\ ncalls[t] < MaxCalls
    /\ _res = <<>>
    /\ pc' = [pc EXCEPT ![t] = "entered"]
    /\ ncalls' = [ncalls EXCEPT ![t] = @ + 1]
    /\ nvisits' = [nvisits EXCEPT ![t] = 0]
    /\ exc' = [exc EXCEPT ![t] = ""]
    /\ ret' = [ret EXCEPT ![t] = PyNone]
    /\ UNCHANGED <<query, result, _type, _data, _res, frames, typeVars, valVars, introVars>>

ProcessRejected(t) ==
    /\ pc[t] \in {"idle", "done", "error"} /\ ncalls[t] < MaxCalls
    /\ _res # <<>>
    /\ pc' = [pc EXCEPT ![t] = "error"]
    /\ ncalls' = [ncalls EXCEPT ![t] = @ + 1]
    /\ nvisits' = [nvisits EXCEPT ![t] = 0]
    /\ exc' = [exc EXCEPT ![t] = "AssertionError"]
    /\ ret' = [ret EXCEPT ![t] = PyNone]
    /\ UNCHANGED <<query, result, _type, _data, _res, frames, typeVars, valVars, introVars>>

\* process, lines 39-40: self._res.append({}) and the call of visit(query)
ProcessAppend(t) ==
    /\ pc[t] = "entered"
    /\ _res' = Append(_res, PyDict(<<>>))
    /\ frames' = [frames EXCEPT ![t] = <<NodeFrame(query)>>]
    /\ pc' = [pc EXCEPT ![t] = "visit"]
    /\ UNCHANGED <<query, result, _type, _data, ret, exc, ncalls, nvisits, typeVars, valVars, introVars>>

\* process, line 41: return self._res.pop()
ProcessReturn(t) ==
    /\ NodeDone(t) /\ Len(frames[t]) = 1
    /\ _res # <<>>
    /\ ret' = [ret EXCEPT ![t] = Top(_res)]
    /\ _res' = Pop(_res)
    /\ frames' = [frames EXCEPT ![t] = <<>>]
    /\ pc' = [pc EXCEPT ![t] = "done"]
    /\ UNCHANGED <<query, result, _type, _data, exc, ncalls, nvisits, typeVars, valVars, introVars>>

VisitField(t) ==
    /\ Visited(t)
    /\ AtItem(t) /\ Item(t).kind = "Field"
    /\ Commit(t, Denormalize_visit_field(Self, Item(t)), Advance(frames[t]))

VisitLinkTypeRef(t) ==
    /\ Visited(t)
    /\ AtLink(t, "TypeRefMeta")
    /\ \E S \in {VisitTypeRef(Self, Item(t), LinkType(Self, Item(t)).val)} :
           Commit(t, S, frames[t] \o <<LinkFrame(Item(t), "TypeRef", <<>>),
                                       NodeFrame(Item(t).node)>>)

VisitLinkOptional(t) ==
    /\ Visited(t)
    /\ AtLink(t, "OptionalMeta")
    /\ \E S \in {VisitOptional(Self, Item(t), LinkType(Self, Item(t)).val)} :
           Commit(t, S,
                  IF Len(S.data) = Len(_data) THEN Advance(frames[t])
                  ELSE frames[t] \o <<LinkFrame(Item(t), "Optional", <<>>),
                                      NodeFrame(Item(t).node)>>)

\* lines 53-55 and 77-79, once the children of the link are visited
LinkExit(t) ==
    /\ InsideVisit(t)
    /\ NodeDone(t) /\ Len(frames[t]) > 2
    /\ frames[t][Len(frames[t]) - 1].fn = "visit_link"
    /\ frames[t][Len(frames[t]) - 1].br \in {"TypeRef", "Optional"}
    /\ Commit(t, PopFrame(Self, frames[t][Len(frames[t]) - 1].obj),
              Advance(Pop(Pop(frames[t]))))

VisitLinkSequence(t) ==
    /\ Visited(t)
    /\ AtLink(t, "SequenceMeta")
    /\ \E S \in {VisitSequence(Self, Item(t), LinkType(Self, Item(t)).val)} :
           Commit(t, S,
                  Append(frames[t],
                         LinkFrame(Item(t), "Sequence",
                                   IF S.exc = ""
                                   THEN Subscript(Top(_data), Item(t).result_key).val.items
                                   ELSE <<>>)))

\* the caller's innermost frame is the loop of a Sequence link
AtSequence(t) ==
    /\ pc[t] = "visit" /\ frames[t] # <<>>
    /\ Top(frames[t]).fn = "visit_link" /\ Top(frames[t]).br = "Sequence"

\* lines 60-63: the next item of the list
SequenceItem(t) ==
    /\ InsideVisit(t)
    /\ AtSequence(t) /\ Top(frames[t]).i <= Len(Top(frames[t]).its)
    /\ Commit(t, ItemBegin(Self, Top(frames[t]).its[Top(frames[t]).i]),
              Append(frames[t], NodeFrame(Top(frames[t]).node)))

\* lines 64-65, once the children are visited for the item
SequenceItemDone(t) ==
    /\ InsideVisit(t)
    /\ NodeDone(t) /\ Len(frames[t]) > 2
    /\ frames[t][Len(frames[t]) - 1].fn = "visit_link"
    /\ frames[t][Len(frames[t]) - 1].br = "Sequence"
    /\ LET S == ItemEnd(Self)
           f == frames[t][Len(frames[t]) - 1]
       IN  Commit(t, S,
                  SetTop(Pop(frames[t]),
                         [f EXCEPT !.i = @ + 1,
                                   !.acc = IF S.exc = "" THEN Append(@, Top(_res)) ELSE @]))

\* lines 66-67: the list is exhausted
SequenceExit(t) ==
    /\ InsideVisit(t)
    /\ AtSequence(t) /\ Top(frames[t]).i > Len(Top(frames[t]).its)
    /\ Commit(t, SequenceEnd(Self, Top(frames[t]).obj, Top(frames[t]).acc),
              Advance(Pop(frames[t])))

\* line 47 failing, or lines 80-81: the declared type is none of the three
VisitLinkRaise(t) ==
    /\ Visited(t)
    /\ AtItem(t) /\ Item(t).kind = "Link"
    /\ LET ty == LinkType(Self, Item(t))
       IN  /\ \/ ty.exc # ""
              \/ ~ \E meta \in {"TypeRefMeta", "SequenceMeta", "OptionalMeta"} :
                       IsInstance(ty.val, meta)
           /\ Commit(t, Fail(Self, IF ty.exc # "" THEN ty.exc ELSE "AssertionError"),
                     frames[t])

Step(t) ==
    \/ ProcessAccepted(t)
    \/ ProcessRejected(t)
    \/ ProcessAppend(t)
    \/ ProcessReturn(t)
    \/ VisitField(t)
    \/ VisitLinkTypeRef(t)
    \/ VisitLinkOptional(t)
    \/ LinkExit(t)
    \/ VisitLinkSequence(t)
    \/ SequenceItem(t)
    \/ SequenceItemDone(t)
    \/ SequenceExit(t)
    \/ VisitLinkRaise(t)

\* Denormalize(graph, result): the instance after __init__, and its callers
ProjInit(callers, queries, left) ==
    /\ query \in queries
    /\ result \in Proxies(query)
    /\ _type = <<RootRecord>>
    /\ _data = <<result>>
    /\ _res = <<>>
    /\ pc = [t \in callers |-> "idle"]
    /\ frames = [t \in callers |-> <<>>]
    /\ ret = [t \in callers |-> PyNone]
    /\ exc = [t \in callers |-> ""]
    /\ ncalls = [t \in callers |-> MaxCalls - left]
    /\ nvisits = [t \in callers |-> 0]

\* one caller, which calls process again after a call has ended
Init == ProjInit({1}, Queries, MaxCalls) /\ TypesParked /\ ValParked /\ IntroParked
Next == Step(1)
Spec == Init /\ [][Next]_vars

(***************************************************************************)
(* The projector's contract, stated on the query and the proxy alone.      *)
(***************************************************************************)
\* the link shapes visit_link supports, the record type they lead to resolved
SupportedLink(type_) ==
    \/ IsInstance(type_, "TypeRefMeta") /\ get_type(Types, type_).exc = ""
    \/ /\ IsInstance(type_, "SequenceMeta")
       /\ IsInstance(DictGet(type_.items, PyStr("__item_type__")), "TypeRefMeta")
       /\ get_type(Types, DictGet(type_.items, PyStr("__item_type__"))).exc = ""
    \/ /\ IsInstance(type_, "OptionalMeta")
       /\ IsInstance(DictGet(type_.items, PyStr("__type__")), "TypeRefMeta")
       /\ get_type(Types, DictGet(type_.items, PyStr("__type__"))).exc = ""

\* the proxy holds a value of the declared shape at every result key of node
RECURSIVE Matching(_, _)
Matching(node, proxy) ==
    /\ proxy.kind = "proxy"
    /\ \A i \in 1..Len(node) :
          /\ DictHas(proxy.items, PyStr(node[i].result_key))
          /\ node[i].kind = "Link" =>
                LET pv == DictGet(proxy.items, PyStr(node[i].result_key))
                IN  CASE pv.kind = "proxy" -> Matching(node[i].node, pv)
                      [] pv.kind = "list" ->
                            \A j \in 1..Len(pv.items) : Matching(node[i].node, pv.items[j])
                      [] OTHER -> pv = PyNone

\* every link the query asks for, at any depth, has a supported declared type
RECURSIVE SupportedNode(_, _)
SupportedNode(node, rec) ==
    \A i \in 1..Len(node) :
        node[i].kind = "Link" =>
            /\ DictHas(DictGet(rec.items, PyStr("__field_types__")).items, PyStr(node[i].name))
            /\ SupportedLink(FieldType(rec, node[i].name))
            /\ LET ty == FieldType(rec, node[i].name)
                   ref == IF IsInstance(ty, "SequenceMeta")
                          THEN DictGet(ty.items, PyStr("__item_type__"))
                          ELSE IF IsInstance(ty, "OptionalMeta")
                          THEN DictGet(ty.items, PyStr("__type__"))
                          ELSE ty
               IN  SupportedNode(node[i].node, get_type(Types, ref).val)

ValidInput == SupportedNode(query, RootRecord) /\ Matching(query, result)

\* out has the shape of node and the leaves of proxy; dicts are compared as
\* Python compares them, without regard to the order of their keys
RECURSIVE Projects(_, _, _)
Projects(out, node, proxy) ==
    /\ out.kind = "dict"
    /\ Len(out.items) = Len(node)
    /\ {out.items[i].items[1] : i \in 1..Len(out.items)}
          = {PyStr(node[i].result_key) : i \in 1..Len(node)}
    /\ \A i \in 1..Len(node) :
          LET val == DictGet(out.items, PyStr(node[i].result_key))
              pv == DictGet(proxy.items, PyStr(node[i].result_key))
          IN  IF node[i].kind = "Field" THEN val = pv
              ELSE CASE pv.kind = "proxy" -> Projects(val, node[i].node, pv)
                     [] pv.kind = "list" ->
                           /\ val.kind = "list"
                           /\ Len(val.items) = Len(pv.items)
                           /\ \A j \in 1..Len(pv.items) :
                                 Projects(val.items[j], node[i].node, pv.items[j])
                     [] OTHER -> val = pv

\* C1: for a query and a proxy matching it, process raises nothing and what
\* it returns has at each level exactly the result keys of the query node,
\* the proxy's values at the field leaves, and for a Sequence link a list of
\* one entry per proxy item in the proxy's order.
C1_ProjectionMatchesQuery ==
    ValidInput =>
        /\ pc[1] # "error"
        /\ pc[1] = "done" => Projects(ret[1], query, result)
\* a returned projection of a two-item list under a query of two entries
C1_Witness ==
    /\ ValidInput /\ pc[1] = "done" /\ Len(query) = 2
    /\ \E i \in 1..2 :
          /\ query[i].name = "xs"
          /\ Len(DictGet(result.items, PyStr("xs")).items) = 2
          /\ Len(DictGet(ret[1].items, PyStr("xs")).items) = 2

\* the result keys of a query node in the order the query lists them
ResultKeys(node) == [i \in 1..Len(node) |-> PyStr(node[i].result_key)]

\* the keys of out, and of every dict below it, come in the query's order
RECURSIVE InQueryOrder(_, _)
InQueryOrder(out, node) ==
    /\ out.kind = "dict"
    /\ DictKeys(out.items) = ResultKeys(node)
    /\ \A i \in 1..Len(node) :
          node[i].kind = "Link" =>
              LET val == out.items[i].items[2]
              IN  CASE val.kind = "dict" -> InQueryOrder(val, node[i].node)
                    [] val.kind = "list" ->
                          \A j \in 1..Len(val.items) :
                              InQueryOrder(val.items[j], node[i].node)
                    [] OTHER -> TRUE

\* C2: at every level of the output the fields and links come in the order
\* of the query, though the proxy stores them in another order and the
\* record type declares them in another.
C2_OrderFollowsQuery ==
    (ValidInput /\ pc[1] = "done") => InQueryOrder(ret[1], query)
\* a returned projection of a query that lists ox before a, against the
\* declaration order, and whose proxy stores a before ox
C2_Witness ==
    /\ ValidInput /\ pc[1] = "done" /\ Len(query) = 2
    /\ query[1].name = "ox" /\ query[2].name = "a"
    /\ DictKeys(result.items) = <<PyStr(query[2].result_key), PyStr("ox")>>
    /\ DictKeys(ret[1].items) = <<PyStr("ox"), PyStr(query[2].result_key)>>
    /\ DictGet(ret[1].items, PyStr("ox")) # PyNone

\* a field's value in the proxy is the engine's value for the field's name;
\* out holds it under the result key, and a link's value under the result
\* key has the keys of the link's own children
RECURSIVE AliasesHonoured(_, _)
AliasesHonoured(out, node) ==
    /\ out.kind = "dict"
    /\ \A i \in 1..Len(node) :
          /\ DictHas(out.items, PyStr(node[i].result_key))
          /\ (\A j \in 1..Len(node) : node[j].result_key # node[i].name)
                => ~DictHas(out.items, PyStr(node[i].name))
          /\ LET val == DictGet(out.items, PyStr(node[i].result_key))
             IN  IF node[i].kind = "Field"
                 THEN val.kind = "scalar" /\ val.tag = node[i].name
                 ELSE CASE val.kind = "dict" -> AliasesHonoured(val, node[i].node)
                        [] val.kind = "list" ->
                              \A j \in 1..Len(val.items) :
                                  AliasesHonoured(val.items[j], node[i].node)
                        [] OTHER -> val = PyNone

\* C3: an aliased field is written under its alias and holds the value of
\* the field it names; an aliased link has its type looked up under its
\* schema name and its value attached under the alias.
C3_AliasHandling ==
    ValidInput =>
        /\ pc[1] = "error" => exc[1] # "KeyError"
        /\ pc[1] = "done" => AliasesHonoured(ret[1], query)
\* a returned projection of the field a as z and of the link x as y, whose
\* child b is asked for as k
C3_Witness ==
    /\ ValidInput /\ pc[1] = "done"
    /\ query = <<Field("a", "z"), Link("x", "y", QCB)>>
    /\ DictGet(ret[1].items, PyStr("z")) = Scalar("a", <<>>)
    /\ DictGet(DictGet(ret[1].items, PyStr("y")).items, PyStr("k")).tag = "b"

\* the caller stands at a link declared Optional(TypeRef(X)); its proxy value
OptionalTypeRefLink(t) ==
    /\ AtLink(t, "OptionalMeta")
    /\ IsInstance(DictGet(LinkType(Self, Item(t)).val.items, PyStr("__type__")),
                  "TypeRefMeta")
LinkData(t) == Subscript(Top(_data), Item(t).result_key).val

\* C4: at a link declared Optional(TypeRef(X)) whose proxy value is None the
\* projector attaches None under the result key, leaves its type and data
\* stacks and the depth of its result stack alone and goes on to the next
\* item of the query without visiting the link's children; for another value
\* it steps as it does for a link declared TypeRef(X).
C4_OptionalNull ==
    [][ (OptionalTypeRefLink(1) /\ VisitLinkOptional(1)) =>
            IF LinkData(1) = PyNone
            THEN /\ _res' = ResSet(_res, Item(1).result_key, PyNone)
                 /\ _type' = _type /\ _data' = _data
                 /\ frames'[1] = Advance(frames[1])
                 /\ pc'[1] = "visit"
            ELSE /\ Inst(_type', _data', _res')
                      = VisitTypeRef(Self, Item(1),
                                     DictGet(LinkType(Self, Item(1)).val.items,
                                             PyStr("__type__")))
                 /\ Len(frames'[1]) = Len(frames[1]) + 2
                 /\ Top(frames'[1]) = NodeFrame(Item(1).node)
                 /\ Top(frames'[1]).i = 1 ]_vars
\* None came back under ox, beside a field visited after it
C4_Witness ==
    /\ pc[1] = "done" /\ Len(query) = 2
    /\ query[1] = Link("ox", "ox", QCB)
    /\ DictGet(result.items, PyStr("ox")) = PyNone
    /\ DictGet(ret[1].items, PyStr("ox")) = PyNone
    /\ Len(ret[1].items) = 2

\* TypeRef(X), Optional(TypeRef(X)) or Sequence(TypeRef(X))
SupportedShape(type_) ==
    \/ IsInstance(type_, "TypeRefMeta")
    \/ /\ IsInstance(type_, "SequenceMeta")
       /\ IsInstance(DictGet(type_.items, PyStr("__item_type__")), "TypeRefMeta")
    \/ /\ IsInstance(type_, "OptionalMeta")
       /\ IsInstance(DictGet(type_.items, PyStr("__type__")), "TypeRefMeta")

\* the query asks, at its top, for a link whose declared type is of another shape
UnsupportedLinkAsked ==
    \E i \in 1..Len(query) :
        /\ query[i].kind = "Link"
        /\ DictHas(DictGet(RootRecord.items, PyStr("__field_types__")).items,
                   PyStr(query[i].name))
        /\ ~SupportedShape(FieldType(RootRecord, query[i].name))

\* C5: a query that asks for a link whose declared type is none of
\* TypeRef(X), Optional(TypeRef(X)), Sequence(TypeRef(X)) never returns an
\* output, whatever the proxy holds for the link.
C5_UnsupportedLinkRaises ==
    UnsupportedLinkAsked => pc[1] # "done"

(***************************************************************************)
(* Two threads calling process on one instance, each once, with the same   *)
(* one-item query.  A thread may be suspended between any two statements.  *)
(***************************************************************************)
InitOverlap ==
    ProjInit({1, 2}, QueriesOfLen(1), 1) /\ TypesParked /\ ValParked /\ IntroParked
NextOverlap == Step(1) \/ Step(2)
SpecOverlap == InitOverlap /\ [][NextOverlap]_vars

\* a caller is inside process: past the assert and not yet returned
InProcess(t) == pc[t] \in {"entered", "visit"}

\* C6: a process call that starts while an earlier call on the instance has
\* not returned is rejected, so no two calls are ever inside process on one
\* instance at once.
C6_OverlapRejected ==
    ~(InProcess(1) /\ InProcess(2))

(***************************************************************************)
(* hiku/introspection/graphql.py: ValidateGraph.                           *)
(*                                                                         *)
(* A name is the sequence of its characters.  A graph is the sequence of   *)
(* its items, the nodes and the Root; an item, a field, a link and an      *)
(* option are [kind, name, children], the children being the fields of a   *)
(* node and the options of a field or link.                                *)
(***************************************************************************)
AsciiLetters ==
    {"a", "b", "c", "d", "e", "f", "g", "h", "i", "j", "k", "l", "m",
     "n", "o", "p", "q", "r", "s", "t", "u", "v", "w", "x", "y", "z",
     "A", "B", "C", "D", "E", "F", "G", "H", "I", "J", "K", "L", "M",
     "N", "O", "P", "Q", "R", "S", "T", "U", "V", "W", "X", "Y", "Z"}
AsciiDigits == {"0", "1", "2", "3", "4", "5", "6", "7", "8", "9"}
\* \w under re.ASCII
WordChars == AsciiLetters \cup AsciiDigits \cup {"_"}

\* _name_re.match(name) for r'^[_a-zA-Z]\w*$': the $ matches at the end of
\* the string and also just before a newline that ends it
_name_re(name) ==
    /\ Len(name) >= 1
    /\ name[1] \in AsciiLetters \cup {"_"}
    /\ \E n \in 1..Len(name) :
          /\ \A i \in 2..n : name[i] \in WordChars
          /\ \/ n = Len(name)
             \/ n = Len(name) - 1 /\ name[Len(name)] = "\n"

Option(name) == [kind |-> "Option", name |-> name, children |-> <<>>]
GraphField(name, options) == [kind |-> "Field", name |-> name, children |-> options]
GraphLink(name, options) == [kind |-> "Link", name |-> name, children |-> options]
GraphNode(name, fields) == [kind |-> "Node", name |-> name, children |-> fields]
Root(fields) == [kind |-> "Root", name |-> <<>>, children |-> fields]
RootName == <<"R", "o", "o", "t">>

\* the names of the graphs that are validated: two that match, two that do
\* not, and one that ends in a newline
NameFoo == <<"f", "o", "o">>
NameBar1 == <<"_", "b", "1">>
NameDash == <<"f", "-", "f">>
NameDigit == <<"1", "f">>
NameNewline == <<"f", "o", "\n">>

FieldsValid == <<GraphField(NameFoo, <<>>), GraphLink(NameBar1, <<Option(NameFoo)>>)>>
FieldsDash == <<GraphField(NameDash, <<Option(NameDigit), Option(NameFoo)>>)>>
FieldsMixed == <<GraphLink(NameDigit, <<>>), GraphField(NameNewline, <<Option(NameDash)>>)>>
FieldLists == {<<>>, FieldsValid, FieldsDash, FieldsMixed}
NodeCatalog ==
    { GraphNode(NameFoo, <<>>), GraphNode(NameDash, <<>>),
      GraphNode(NameFoo, FieldsValid), GraphNode(NameDash, FieldsDash),
      GraphNode(NameBar1, FieldsMixed), GraphNode(NameDigit, FieldsValid) }

RECURSIVE NodeLists(_)
NodeLists(n) ==
    IF n = 0 THEN {<<>>}
    ELSE {Append(ns, nd) : ns \in NodeLists(n - 1), nd \in NodeCatalog}
\* Graph(items): up to MaxNodes nodes and the Root, before or after them
Graphs ==
    UNION { { <<Root(fs)>> \o ns, ns \o <<Root(fs)>> } :
                ns \in UNION {NodeLists(n) : n \in 0..MaxNodes}, fs \in FieldLists }

\* an entry of _errors, '{}: {}'.format('.'.join(path), description): the
\* names of the path and the description's text and name
ErrorLine(path, text, name) == [path |-> path, text |-> text, name |-> name]

\* ValidateGraph._add_error
AddErrorKeepFirst(errors, path, name, text) ==
    IF errors = <<>> THEN <<ErrorLine(Append(path, name), text, name)>> ELSE errors
ValidateGraph_add_error(errors, path, name, text) ==
    Append(errors, ErrorLine(Append(path, name), text, name))

\* the check of a name that opens visit_node, visit_field, visit_link and
\* visit_option
CheckName(errors, path, obj, text) ==
    IF ~_name_re(obj.name) THEN ValidateGraph_add_error(errors, path, obj.name, text)
    ELSE errors

\* a frame of the visitor's call stack: the loop of fn over items, at index i
VFrame(fn, items) == [fn |-> fn, items |-> items, i |-> 1]
VAt(fns) ==
    /\ vpc = "visit" /\ vframes # <<>>
    /\ Top(vframes).fn \in fns
    /\ Top(vframes).i <= Len(Top(vframes).items)
VItem == Top(vframes).items[Top(vframes).i]
VDone(fns) ==
    /\ vpc = "visit" /\ vframes # <<>>
    /\ Top(vframes).fn \in fns
    /\ Top(vframes).i > Len(Top(vframes).items)

\* validate: self = cls(); self.visit(graph)
ValidateGraph_validate ==
    /\ vpc = "idle"
    /\ vpc' = "visit"
    /\ _path' = <<>> /\ _errors' = <<>>
    /\ vframes' = <<VFrame("visit_graph", graph)>>
    /\ UNCHANGED <<graph, raised, typeVars, projVars, introVars>>

ValidateGraph_visit_node ==
    /\ VAt({"visit_graph"}) /\ VItem.kind = "Node"
    /\ \E errs \in {CheckName(_errors, _path, VItem, "Invalid node name")} :
          IF VItem.children # <<>>
          THEN /\ _errors' = errs
               /\ _path' = Append(_path, VItem.name)
               /\ vframes' = Append(vframes, VFrame("visit_node", VItem.children))
          ELSE /\ _errors' = ValidateGraph_add_error(errs, _path, VItem.name,
                                                    "No fields in the node")
               /\ _path' = _path
               /\ vframes' = Advance(vframes)
    /\ UNCHANGED <<graph, vpc, raised, typeVars, projVars, introVars>>

ValidateGraph_visit_root ==
    /\ VAt({"visit_graph"}) /\ VItem.kind = "Root"
    /\ IF VItem.children # <<>>
       THEN /\ _errors' = _errors
            /\ _path' = Append(_path, RootName)
            /\ vframes' = Append(vframes, VFrame("visit_root", VItem.children))
       ELSE /\ _errors' = ValidateGraph_add_error(_errors, _path, RootName,
                                                 "No fields in the node")
            /\ _path' = _path
            /\ vframes' = Advance(vframes)
    /\ UNCHANGED <<graph, vpc, raised, typeVars, projVars, introVars>>

\* the loop over the fields of a node or of the Root is over: self._path.pop()
NodeReturn ==
    /\ VDone({"visit_node", "visit_root"})
    /\ _path' = Pop(_path)
    /\ vframes' = Advance(Pop(vframes))
    /\ UNCHANGED <<graph, _errors, vpc, raised, typeVars, projVars, introVars>>

ValidateGraph_visit_field ==
    /\ VAt({"visit_node", "visit_root"}) /\ VItem.kind = "Field"
    /\ _errors' = CheckName(_errors, _path, VItem, "Invalid field name")
    /\ vframes' = Append(vframes, VFrame("visit_field", VItem.children))
    /\ UNCHANGED <<graph, _path, vpc, raised, typeVars, projVars, introVars>>

ValidateGraph_visit_link ==
    /\ VAt({"visit_node", "visit_root"}) /\ VItem.kind = "Link"
    /\ _errors' = CheckName(_errors, _path, VItem, "Invalid link name")
    /\ vframes' = Append(vframes, VFrame("visit_link", VItem.children))
    /\ UNCHANGED <<graph, _path, vpc, raised, typeVars, projVars, introVars>>

ValidateGraph_visit_option ==
    /\ VAt({"visit_field", "visit_link"})
    /\ _errors' = CheckName(_errors, _path, VItem, "Invalid option name")
    /\ vframes' = Advance(vframes)
    /\ UNCHANGED <<graph, _path, vpc, raised, typeVars, projVars, introVars>>

\* the loop over the options of a field or link is over
FieldReturn ==
    /\ VDone({"visit_field", "visit_link"})
    /\ vframes' = Advance(Pop(vframes))
    /\ UNCHANGED <<graph, _path, _errors, vpc, raised, typeVars, projVars, introVars>>

\* validate: the visit is over and self._errors is not empty; the ValueError
\* carries 'Invalid GraphQL graph:' and one '- ...' line for each error
ValidateRaise ==
    /\ VDone({"visit_graph"}) /\ _errors # <<>>
    /\ vpc' = "raised"
    /\ raised' = <<[exc |-> "ValueError", lines |-> _errors]>>
    /\ vframes' = <<>>
    /\ UNCHANGED <<graph, _path, _errors, typeVars, projVars, introVars>>

ValidateReturn ==
    /\ VDone({"visit_graph"}) /\ _errors = <<>>
    /\ vpc' = "returned"
    /\ vframes' = <<>>
    /\ UNCHANGED <<graph, _path, _errors, raised, typeVars, projVars, introVars>>

InitValidate ==
    /\ graph \in Graphs
    /\ _path = <<>> /\ _errors = <<>> /\ vframes = <<>>
    /\ vpc = "idle" /\ raised = <<>>
    /\ TypesParked /\ ProjParked /\ IntroParked
NextValidate ==
    \/ ValidateGraph_validate
    \/ ValidateGraph_visit_node
    \/ ValidateGraph_visit_root
    \/ NodeReturn
    \/ ValidateGraph_visit_field
    \/ ValidateGraph_visit_link
    \/ ValidateGraph_visit_option
    \/ FieldReturn
    \/ ValidateRaise
    \/ ValidateReturn
SpecValidate == InitValidate /\ [][NextValidate]_vars

\* the violations of a graph, each with the place of the object in the graph
\* (item, field, option) and the line that reports it
NameText(kind) ==
    CASE kind = "Node" -> "Invalid node name"
      [] kind = "Field" -> "Invalid field name"
      [] kind = "Link" -> "Invalid link name"
      [] OTHER -> "Invalid option name"
ItemName(item) == IF item.kind = "Root" THEN RootName ELSE item.name
Violations(g) ==
    {[at |-> <<i>>, line |-> ErrorLine(<<g[i].name>>, NameText("Node"), g[i].name)] :
        i \in {k \in 1..Len(g) : g[k].kind = "Node" /\ ~_name_re(g[k].name)}}
    \cup
    {[at |-> <<i, 0>>,
      line |-> ErrorLine(<<ItemName(g[i])>>, "No fields in the node", ItemName(g[i]))] :
        i \in {k \in 1..Len(g) : g[k].children = <<>>}}
    \cup
    UNION {
        {[at |-> <<i, j>>,
          line |-> ErrorLine(<<ItemName(g[i]), g[i].children[j].name>>,
                             NameText(g[i].children[j].kind), g[i].children[j].name)] :
            j \in {k \in 1..Len(g[i].children) : ~_name_re(g[i].children[k].name)}}
        : i \in 1..Len(g)}
    \cup
    UNION { UNION {
        {[at |-> <<i, j, o>>,
          line |-> ErrorLine(<<ItemName(g[i]), g[i].children[j].children[o].name>>,
                             NameText("Option"), g[i].children[j].children[o].name)] :
            o \in {k \in 1..Len(g[i].children[j].children) :
                       ~_name_re(g[i].children[j].children[k].name)}}
        : j \in 1..Len(g[i].children)}
        : i \in 1..Len(g)}

Lines(errors) == {errors[i] : i \in 1..Len(errors)}

\* C10: validate visits the whole graph; when the graph has violations it
\* raises one ValueError whose lines are the violations, one
\* '<path>: <message>' line for each, and stops at none of them; when the
\* graph has none it raises nothing.
C10_AllViolationsListed ==
    /\ vpc = "raised" =>
          /\ Len(raised) = 1 /\ raised[1].exc = "ValueError"
          /\ Lines(raised[1].lines) = {v.line : v \in Violations(graph)}
          /\ Len(raised[1].lines) = Cardinality(Violations(graph))
    /\ vpc = "returned" => (Violations(graph) = {} /\ raised = <<>>)
    /\ vpc \in {"raised", "returned"} =>
          (vpc = "raised" <=> Violations(graph) # {})
\* one error raised for a graph with an ill-named node, an ill-named field
\* and option under it, and a Root without fields: four lines
C10_Witness ==
    /\ vpc = "raised"
    /\ graph = <<GraphNode(NameDash, FieldsDash), Root(<<>>)>>
    /\ Len(raised[1].lines) = 4
    /\ raised[1].lines[4] = ErrorLine(<<RootName>>, "No fields in the node", RootName)

\* the names of the nodes, fields, links and options of a graph
NamesOf(g) ==
    {g[i].name : i \in {k \in 1..Len(g) : g[k].kind = "Node"}}
    \cup UNION {{g[i].children[j].name : j \in 1..Len(g[i].children)} : i \in 1..Len(g)}
    \cup UNION {UNION {{g[i].children[j].children[o].name :
                            o \in 1..Len(g[i].children[j].children)} :
                        j \in 1..Len(g[i].children)} : i \in 1..Len(g)}
\* the whole name is [_a-zA-Z][_a-zA-Z0-9]*
FullMatch(name) ==
    /\ Len(name) >= 1
    /\ name[1] \in AsciiLetters \cup {"_"}
    /\ \A i \in 2..Len(name) : name[i] \in AsciiLetters \cup AsciiDigits \cup {"_"}
\* validate reported the name as invalid
ReportedInvalid(name) ==
    \E i \in 1..Len(_errors) :
        _errors[i].name = name /\ _errors[i].text # "No fields in the node"

\* C11: once validate has ended, a name of the graph was let through if and
\* only if the whole of it matches [_a-zA-Z][_a-zA-Z0-9]*.
C11_NamePattern ==
    vpc \in {"raised", "returned"} =>
        \A name \in NamesOf(graph) : ~ReportedInvalid(name) <=> FullMatch(name)

(***************************************************************************)
(* hiku/introspection/graphql.py: the introspection resolvers.             *)
(*                                                                         *)
(* A str is here the list of its characters, so that 'IO{}'.format(name)   *)
(* and name.startswith('_') are computed.  An identity (a                  *)
(* HashedNamedTuple of hiku.introspection.types) is a value tagged with    *)
(* its class, holding its fields in order.                                 *)
(***************************************************************************)
Chr(c) == PyVal("chr", c, <<>>)
StrOf(chars) == PyVal("str", "", [i \in 1..Len(chars) |-> Chr(chars[i])])
Chars(str) == [i \in 1..Len(str.items) |-> str.items[i].tag]
\* a + b
Concat(a, b) == PyVal("str", "", a.items \o b.items)
\* s.startswith(c)
StartsWith(str, c) == Len(str.items) >= 1 /\ str.items[1] = Chr(c)

Nothing == PyVal("nothing", "", <<>>)
Ident(cls, fields) == PyVal("ident", cls, fields)
SCALAR(name) == Ident("SCALAR", <<name>>)
OBJECT(name) == Ident("OBJECT", <<name>>)
INPUT_OBJECT(name) == Ident("INPUT_OBJECT", <<name>>)
DIRECTIVE(name) == Ident("DIRECTIVE", <<name>>)
NON_NULL(of_type) == Ident("NON_NULL", <<of_type>>)
LIST(of_type) == Ident("LIST", <<of_type>>)
FieldIdent(node, name) == Ident("FieldIdent", <<node, name>>)
FieldArgIdent(node, field, name) == Ident("FieldArgIdent", <<node, field, name>>)
InputObjectFieldIdent(name, key) == Ident("InputObjectFieldIdent", <<name, key>>)
DirectiveArgIdent(name, arg) == Ident("DirectiveArgIdent", <<name, arg>>)
IsIdent(v, cls) == v.kind = "ident" /\ v.tag = cls

QUERY_ROOT_NAME == StrOf(<<"Q", "u", "e", "r", "y">>)
MUTATION_ROOT_NAME == StrOf(<<"M", "u", "t", "a", "t", "i", "o", "n">>)
ScalarString == StrOf(<<"S", "t", "r", "i", "n", "g">>)
ScalarInt == StrOf(<<"I", "n", "t">>)
ScalarBoolean == StrOf(<<"B", "o", "o", "l", "e", "a", "n">>)
ScalarFloat == StrOf(<<"F", "l", "o", "a", "t">>)
ScalarAny == StrOf(<<"A", "n", "y">>)

\* hiku.graph Option, Field, Link and Node as the resolvers read them: an
\* option's default is Nothing when it has none; type is None for an untyped
\* field; deprecated holds the reason of the field's Deprecated directive, if
\* it has one
TypedOption(name, type, default) ==
    [name |-> name, type |-> type, default |-> default, description |-> PyNone]
TypedField(name, type, options, deprecated) ==
    [kind |-> "Field", name |-> name, type |-> type, options |-> options,
     deprecated |-> deprecated, description |-> PyNone]
TypedLink(name, type, options, deprecated) ==
    [kind |-> "Link", name |-> name, type |-> type, options |-> options,
     deprecated |-> deprecated, description |-> PyNone]
TypedNode(name, fields) == [name |-> name, fields |-> fields, description |-> PyNone]
\* Directive and Directive.Argument
Argument(name, type_ident, default_value) ==
    [name |-> name, type_ident |-> type_ident, description |-> PyNone,
     default_value |-> default_value]
Directive(name, args) ==
    [name |-> name, locations |-> PyList(<<>>), description |-> PyNone, args |-> args]
\* SchemaInfo: query_graph.nodes and .root, the mutation graph's root if one
\* was given, query_graph.data_types, directives
SchemaInfo(nodes, root, mutation, data_types, directives) ==
    [nodes |-> nodes, root |-> root, mutation |-> mutation,
     data_types |-> data_types, directives |-> directives]

\* lookup in a list of records by name, as in an OrderedDict built from them
HasName(xs, name) == \E i \in 1..Len(xs) : xs[i].name = name
ByName(xs, name) == xs[CHOOSE i \in 1..Len(xs) :
                          xs[i].name = name /\ \A j \in (i + 1)..Len(xs) : xs[j].name # name]

\* OrderedDict(pairs) of (name, node) pairs: a name stays where it came
\* first and holds the node that came last
OrderedByName(xs) ==
    LET first == SelectSeq([i \in 1..Len(xs) |-> i],
                           LAMBDA i : \A j \in 1..(i - 1) : xs[j].name # xs[i].name)
    IN  [k \in 1..Len(first) |-> ByName(xs, xs[first[k]].name)]
\* the nodes of the graph as apply leaves it: the meta-schema's nodes among
\* them, and __typename among the fields of each
NodesMapAfterBinding(sch) ==
    OrderedByName(
        [i \in 1..Len(bound.items) |->
            TypedNode(IF bound.items[i].name = PyNone THEN QUERY_ROOT_NAME
                      ELSE bound.items[i].name,
                      [k \in 1..Len(bound.items[i].fields) |->
                          TypedField(bound.items[i].fields[k].name, String, <<>>, <<>>)])])
\* _nodes_map
_nodes_map(sch) ==
    OrderedByName(
        sch.nodes \o <<TypedNode(QUERY_ROOT_NAME, sch.root)>>
                  \o [i \in 1..Len(sch.mutation) |->
                         TypedNode(MUTATION_ROOT_NAME, sch.mutation[i])])

\* TypeIdent.visit_optional: ident.of_type if isinstance(ident, NON_NULL)
\* else ident
KeepNonNull(ident) == ident
StripNonNullOfScalar(ident) ==
    IF IsIdent(ident, "NON_NULL") /\ IsIdent(ident.items[1], "SCALAR")
    THEN ident.items[1] ELSE ident
StripNonNull(ident) == IF IsIdent(ident, "NON_NULL") THEN ident.items[1] ELSE ident

\* TypeIdent(graph, input_mode).visit(obj): the dispatch of obj.accept on the
\* metaclass; a value that is no type has no accept
RECURSIVE TypeIdent_visit(_, _, _)
TypeIdent_visit(data_types, input_mode, obj) ==
    CASE obj.kind = "class" /\ obj.tag \in {"AnyMeta", "MappingMeta", "RecordMeta"} ->
            Ok(SCALAR(ScalarAny))
      [] IsInstance(obj, "CallableMeta") -> Raise("TypeError")
      [] IsInstance(obj, "SequenceMeta") ->
            LET r == TypeIdent_visit(data_types, input_mode,
                                     DictGet(obj.items, PyStr("__item_type__")))
            IN  IF r.exc # "" THEN r ELSE Ok(NON_NULL(LIST(r.val)))
      [] IsInstance(obj, "OptionalMeta") ->
            LET r == TypeIdent_visit(data_types, input_mode,
                                     DictGet(obj.items, PyStr("__type__")))
            IN  IF r.exc # "" THEN r ELSE Ok(StripNonNull(r.val))
      [] IsInstance(obj, "TypeRefMeta") ->
            LET name == DictGet(obj.items, PyStr("__type_name__"))
            IN  IF input_mode
                THEN IF DictHas(data_types, name) THEN Ok(NON_NULL(INPUT_OBJECT(name)))
                     ELSE Raise("AssertionError")
                ELSE Ok(NON_NULL(OBJECT(name)))
      [] IsInstance(obj, "StringMeta") -> Ok(NON_NULL(SCALAR(ScalarString)))
      [] IsInstance(obj, "IntegerMeta") -> Ok(NON_NULL(SCALAR(ScalarInt)))
      [] IsInstance(obj, "FloatMeta") -> Ok(NON_NULL(SCALAR(ScalarFloat)))
      [] IsInstance(obj, "BooleanMeta") -> Ok(NON_NULL(SCALAR(ScalarBoolean)))
      [] OTHER -> Raise("AttributeError")

\* json.dumps of None, a bool, a str of plain characters and a list of these
DefaultAsIs(v) == v
RECURSIVE JsonDumps(_)
RECURSIVE JsonJoin(_)
JsonDumps(v) ==
    CASE v = PyNone -> StrOf(<<"n", "u", "l", "l">>)
      [] v = PyBool(TRUE) -> StrOf(<<"t", "r", "u", "e">>)
      [] v = PyBool(FALSE) -> StrOf(<<"f", "a", "l", "s", "e">>)
      [] v.kind = "str" -> Concat(Concat(StrOf(<<"\"">>), v), StrOf(<<"\"">>))
      [] OTHER -> Concat(Concat(StrOf(<<"[">>), JsonJoin(v.items)), StrOf(<<"]">>))
JsonJoin(xs) ==
    IF xs = <<>> THEN StrOf(<<>>)
    ELSE IF Len(xs) = 1 THEN JsonDumps(xs[1])
    ELSE Concat(Concat(JsonDumps(xs[1]), StrOf(<<",", " ">>)), JsonJoin(Tail(xs)))

\* @listify on a generator: steps[i] is what the body does for ids[i], an
\* exception or the values it yields; the call returns the list of all the
\* values yielded, or raises the first exception
RECURSIVE Flatten(_)
Flatten(xss) == IF xss = <<>> THEN <<>> ELSE xss[1] \o Flatten(Tail(xss))
listify(steps) ==
    IF \E i \in 1..Len(steps) : steps[i].exc # ""
    THEN Raise(steps[CHOOSE i \in 1..Len(steps) :
                         steps[i].exc # "" /\ \A j \in 1..(i - 1) : steps[j].exc = ""].exc)
    ELSE Ok(Flatten([i \in 1..Len(steps) |-> steps[i].val]))
Yield(v) == Ok(<<v>>)

\* [info.get(f.name) for f in fields], info a dict
RowOf(info, fields) ==
    PyList([i \in 1..Len(fields) |->
               IF DictHas(info, PyStr(fields[i])) THEN DictGet(info, PyStr(fields[i]))
               ELSE PyNone])
\* the value of a row for the field called name
Col(row, fields, name) == row.items[CHOOSE i \in 1..Len(fields) : fields[i] = name]

\* the fields of the meta-schema nodes that each info resolver serves, in the
\* order of GRAPH
TypeInfoFields == <<"id", "kind", "name", "description">>
FieldInfoFields == <<"id", "name", "description", "isDeprecated", "deprecationReason">>
InputValueInfoFields == <<"id", "name", "description", "defaultValue">>
DirectiveInfoFields == <<"name", "description", "locations">>
Entry(key, value) == PyPair(PyStr(key), value)

\* na_many(schema, ids)
na_many(sch, idl) == Ok([i \in 1..Len(idl) |-> PyList(<<>>)])

\* type_link(schema, options), name = options['name']
TypeLinkAlwaysObject(sch, name) == OBJECT(name)
type_link(sch, name) ==
    IF HasName(_nodes_map(sch), name) THEN OBJECT(name) ELSE Nothing

\* root_schema_types
RecordNames(sch) ==
    SelectSeq(DictKeys(sch.data_types),
              LAMBDA n : IsInstance(DictGet(sch.data_types, n), "RecordMeta"))
root_schema_types(sch) ==
    << SCALAR(ScalarString), SCALAR(ScalarInt), SCALAR(ScalarBoolean),
       SCALAR(ScalarFloat), SCALAR(ScalarAny) >>
    \o [i \in 1..Len(_nodes_map(sch)) |-> OBJECT(_nodes_map(sch)[i].name)]
    \o Flatten([i \in 1..Len(RecordNames(sch)) |->
                   <<OBJECT(RecordNames(sch)[i]), INPUT_OBJECT(RecordNames(sch)[i])>>])

\* root_schema_query_type
root_schema_query_type(sch) == OBJECT(QUERY_ROOT_NAME)

\* root_schema_mutation_type
MutationTypeAlways(sch) == OBJECT(MUTATION_ROOT_NAME)
root_schema_mutation_type(sch) ==
    IF sch.mutation # <<>> THEN OBJECT(MUTATION_ROOT_NAME) ELSE Nothing

\* root_schema_directives
root_schema_directives(sch) ==
    [i \in 1..Len(sch.directives) |-> DIRECTIVE(sch.directives[i].name)]

\* type_info
type_info_step(sch, ident) ==
    CASE IsIdent(ident, "OBJECT") ->
            Yield(RowOf(<< Entry("id", ident), Entry("kind", PyStr("OBJECT")),
                           Entry("name", ident.items[1]),
                           Entry("description",
                                 IF HasName(_nodes_map(sch), ident.items[1])
                                 THEN ByName(_nodes_map(sch), ident.items[1]).description
                                 ELSE PyNone) >>, TypeInfoFields))
      [] IsIdent(ident, "INPUT_OBJECT") ->
            Yield(RowOf(<< Entry("id", ident), Entry("kind", PyStr("INPUT_OBJECT")),
                           Entry("name", Concat(StrOf(<<"I", "O">>), ident.items[1])),
                           Entry("description", PyNone) >>, TypeInfoFields))
      [] IsIdent(ident, "NON_NULL") ->
            Yield(RowOf(<<Entry("id", ident), Entry("kind", PyStr("NON_NULL"))>>,
                        TypeInfoFields))
      [] IsIdent(ident, "LIST") ->
            Yield(RowOf(<<Entry("id", ident), Entry("kind", PyStr("LIST"))>>,
                        TypeInfoFields))
      [] IsIdent(ident, "SCALAR") ->
            Yield(RowOf(<< Entry("id", ident), Entry("name", ident.items[1]),
                           Entry("kind", PyStr("SCALAR")) >>, TypeInfoFields))
      [] OTHER -> Raise("TypeError")
type_info(sch, idl) == listify([i \in 1..Len(idl) |-> type_info_step(sch, idl[i])])

\* type_fields_link
ExposedFields(node) == SelectSeq(node.fields, LAMBDA f : ~StartsWith(f.name, "_"))
type_fields_link_step(sch, ident) ==
    IF IsIdent(ident, "OBJECT")
    THEN IF HasName(_nodes_map(sch), ident.items[1])
         THEN LET fs == ExposedFields(ByName(_nodes_map(sch), ident.items[1]))
              IN  IF fs = <<>> THEN Raise("TypeError")
                  ELSE Yield(PyList([i \in 1..Len(fs) |->
                                        FieldIdent(ident.items[1], fs[i].name)]))
         ELSE IF ~DictHas(sch.data_types, ident.items[1]) THEN Raise("KeyError")
         ELSE IF ~IsInstance(DictGet(sch.data_types, ident.items[1]), "RecordMeta")
         THEN Raise("AttributeError")
         ELSE LET ks == DictKeys(DictGet(DictGet(sch.data_types, ident.items[1]).items,
                                         PyStr("__field_types__")).items)
              IN  IF ks = <<>> THEN Raise("TypeError")
                  ELSE Yield(PyList([i \in 1..Len(ks) |-> FieldIdent(ident.items[1], ks[i])]))
    ELSE Yield(PyList(<<>>))
type_fields_link(sch, idl) ==
    listify([i \in 1..Len(idl) |-> type_fields_link_step(sch, idl[i])])

\* type_of_type_link
OfTypeKeepsWrapper(sch, idl) == Ok(idl)
type_of_type_link(sch, idl) ==
    listify([i \in 1..Len(idl) |->
                IF IsIdent(idl[i], "NON_NULL") \/ IsIdent(idl[i], "LIST")
                THEN Yield(idl[i].items[1])
                ELSE Yield(Nothing)])

\* get_deprecated(field) of hiku.directives: the field's Deprecated
\* directive, else None
Deprecated(reason) == PyVal("Deprecated", "", <<reason>>)
get_deprecated(field) ==
    IF field.deprecated = <<>> THEN PyNone ELSE Deprecated(field.deprecated[1])

\* deprecated and deprecated.reason
ReasonDropped(deprecated) == PyNone
ReasonOf(deprecated) ==
    IF deprecated = PyNone THEN PyNone ELSE deprecated.items[1]

\* field_info
field_info_step(sch, ident) ==
    IF HasName(_nodes_map(sch), ident.items[1])
    THEN IF ~HasName(ByName(_nodes_map(sch), ident.items[1]).fields, ident.items[2])
         THEN Raise("KeyError")
         ELSE LET field == ByName(ByName(_nodes_map(sch), ident.items[1]).fields,
                                  ident.items[2])
                  deprecated == get_deprecated(field)
              IN  Yield(RowOf(<< Entry("id", ident), Entry("name", field.name),
                                 Entry("description", field.description),
                                 Entry("isDeprecated", PyBool(deprecated # PyNone)),
                                 Entry("deprecationReason", ReasonOf(deprecated)) >>,
                              FieldInfoFields))
    ELSE Yield(RowOf(<< Entry("id", ident), Entry("name", ident.items[2]),
                        Entry("description", PyNone),
                        Entry("isDeprecated", PyBool(FALSE)),
                        Entry("deprecationReason", PyNone) >>, FieldInfoFields))
field_info(sch, idl) == listify([i \in 1..Len(idl) |-> field_info_step(sch, idl[i])])

\* data_type.__field_types__[key] of schema.data_types[name]
DataFieldType(sch, name, key) ==
    IF ~DictHas(sch.data_types, name) THEN Raise("KeyError")
    ELSE IF ~IsInstance(DictGet(sch.data_types, name), "RecordMeta")
    THEN Raise("AttributeError")
    ELSE LET ft == DictGet(DictGet(sch.data_types, name).items, PyStr("__field_types__")).items
         IN  IF DictHas(ft, key) THEN Ok(DictGet(ft, key)) ELSE Raise("KeyError")

\* field_type_link
field_type_link_step(sch, ident) ==
    IF HasName(_nodes_map(sch), ident.items[1])
    THEN IF ~HasName(ByName(_nodes_map(sch), ident.items[1]).fields, ident.items[2])
         THEN Raise("KeyError")
         ELSE LET field == ByName(ByName(_nodes_map(sch), ident.items[1]).fields,
                                  ident.items[2])
                  r == TypeIdent_visit(sch.data_types, FALSE,
                                       IF field.type = PyNone THEN Any ELSE field.type)
              IN  IF r.exc # "" THEN r ELSE Yield(r.val)
    ELSE LET ft == DataFieldType(sch, ident.items[1], ident.items[2])
             r == TypeIdent_visit(sch.data_types, FALSE, ft.val)
         IN  IF ft.exc # "" THEN ft
             ELSE IF r.exc # "" THEN r ELSE Yield(r.val)
field_type_link(sch, idl) ==
    listify([i \in 1..Len(idl) |-> field_type_link_step(sch, idl[i])])

\* field_args_link
field_args_link_step(sch, ident) ==
    IF HasName(_nodes_map(sch), ident.items[1])
    THEN IF ~HasName(ByName(_nodes_map(sch), ident.items[1]).fields, ident.items[2])
         THEN Raise("KeyError")
         ELSE LET field == ByName(ByName(_nodes_map(sch), ident.items[1]).fields,
                                  ident.items[2])
              IN  Yield(PyList([i \in 1..Len(field.options) |->
                                   FieldArgIdent(ident.items[1], field.name,
                                                 field.options[i].name)]))
    ELSE Yield(PyList(<<>>))
field_args_link(sch, idl) ==
    listify([i \in 1..Len(idl) |-> field_args_link_step(sch, idl[i])])

\* type_input_object_input_fields_link
type_input_object_input_fields_link_step(sch, ident) ==
    IF IsIdent(ident, "INPUT_OBJECT")
    THEN IF ~DictHas(sch.data_types, ident.items[1]) THEN Raise("KeyError")
         ELSE IF ~IsInstance(DictGet(sch.data_types, ident.items[1]), "RecordMeta")
         THEN Raise("AttributeError")
         ELSE LET ks == DictKeys(DictGet(DictGet(sch.data_types, ident.items[1]).items,
                                         PyStr("__field_types__")).items)
              IN  Yield(PyList([i \in 1..Len(ks) |->
                                   InputObjectFieldIdent(ident.items[1], ks[i])]))
    ELSE Yield(PyList(<<>>))
type_input_object_input_fields_link(sch, idl) ==
    listify([i \in 1..Len(idl) |-> type_input_object_input_fields_link_step(sch, idl[i])])

\* the option a FieldArgIdent names: nodes_map[node].fields_map[field].options_map[name]
OptionOf(sch, ident) ==
    IF ~HasName(_nodes_map(sch), ident.items[1]) THEN Raise("KeyError")
    ELSE IF ~HasName(ByName(_nodes_map(sch), ident.items[1]).fields, ident.items[2])
    THEN Raise("KeyError")
    ELSE IF ~HasName(ByName(ByName(_nodes_map(sch), ident.items[1]).fields,
                            ident.items[2]).options, ident.items[3])
    THEN Raise("KeyError")
    ELSE Ok(ByName(ByName(ByName(_nodes_map(sch), ident.items[1]).fields,
                          ident.items[2]).options, ident.items[3]))

\* input_value_info
input_value_info_step(sch, ident) ==
    CASE IsIdent(ident, "FieldArgIdent") ->
            LET o == OptionOf(sch, ident)
            IN  IF o.exc # "" THEN o
                ELSE Yield(RowOf(<< Entry("id", ident), Entry("name", o.val.name),
                                    Entry("description", o.val.description),
                                    Entry("defaultValue",
                                          IF o.val.default = Nothing THEN PyNone
                                          ELSE JsonDumps(o.val.default)) >>,
                                 InputValueInfoFields))
      [] IsIdent(ident, "InputObjectFieldIdent") ->
            Yield(RowOf(<< Entry("id", ident), Entry("name", ident.items[2]),
                           Entry("description", PyNone),
                           Entry("defaultValue", PyNone) >>, InputValueInfoFields))
      [] IsIdent(ident, "DirectiveArgIdent") ->
            IF ~HasName(sch.directives, ident.items[1]) THEN Raise("KeyError")
            ELSE IF ~HasName(ByName(sch.directives, ident.items[1]).args, ident.items[2])
            THEN Raise("KeyError")
            ELSE LET arg == ByName(ByName(sch.directives, ident.items[1]).args,
                                   ident.items[2])
                 IN  Yield(RowOf(<< Entry("id", ident), Entry("name", arg.name),
                                    Entry("description", arg.description),
                                    Entry("defaultValue", arg.default_value) >>,
                                 InputValueInfoFields))
      [] OTHER -> Raise("TypeError")
input_value_info(sch, idl) ==
    listify([i \in 1..Len(idl) |-> input_value_info_step(sch, idl[i])])

\* input_value_type_link; for a DirectiveArgIdent the body yields the
\* type_ident of every argument of the directive
input_value_type_link_step(sch, ident) ==
    CASE IsIdent(ident, "FieldArgIdent") ->
            LET o == OptionOf(sch, ident)
                r == TypeIdent_visit(sch.data_types, TRUE, o.val.type)
            IN  IF o.exc # "" THEN o
                ELSE IF r.exc # "" THEN r ELSE Yield(r.val)
      [] IsIdent(ident, "InputObjectFieldIdent") ->
            LET ft == DataFieldType(sch, ident.items[1], ident.items[2])
                r == TypeIdent_visit(sch.data_types, TRUE, ft.val)
            IN  IF ft.exc # "" THEN ft
                ELSE IF r.exc # "" THEN r ELSE Yield(r.val)
      [] IsIdent(ident, "DirectiveArgIdent") ->
            IF ~HasName(sch.directives, ident.items[1]) THEN Raise("KeyError")
            ELSE Ok([i \in 1..Len(ByName(sch.directives, ident.items[1]).args) |->
                        ByName(sch.directives, ident.items[1]).args[i].type_ident])
      [] OTHER -> Raise("TypeError")
input_value_type_link(sch, idl) ==
    listify([i \in 1..Len(idl) |-> input_value_type_link_step(sch, idl[i])])

\* directive_value_info: nothing is yielded for a name that is no directive
directive_value_info(sch, idl) ==
    listify([i \in 1..Len(idl) |->
                IF HasName(sch.directives, idl[i].items[1])
                THEN LET directive == ByName(sch.directives, idl[i].items[1])
                     IN  Yield(RowOf(<< Entry("name", directive.name),
                                        Entry("description", directive.description),
                                        Entry("locations", directive.locations) >>,
                                     DirectiveInfoFields))
                ELSE Ok(<<>>)])

\* directive_args_link; names are the directives' names (requires='name')
directive_args_link(sch, names) ==
    listify([i \in 1..Len(names) |->
                IF ~HasName(sch.directives, names[i]) THEN Raise("KeyError")
                ELSE LET directive == ByName(sch.directives, names[i])
                     IN  Yield(PyList([a \in 1..Len(directive.args) |->
                                          DirectiveArgIdent(names[i], directive.args[a].name)]))])

\* type_name_field_func(node_name, fields, ids); ids is None when the field
\* belongs to the Root
type_name_field_func(node_name, ids_is_none, idl) ==
    IF ids_is_none THEN Ok(<<node_name>>)
    ELSE Ok([i \in 1..Len(idl) |-> PyList(<<node_name>>)])

(***************************************************************************)
(* The schemas that are introspected.                                      *)
(***************************************************************************)
MappingOf(k, v) == TypingMeta_getitem(Mapping, PyTuple(<<k, v>>)).val
DataRef(name) == TypingMeta_getitem(TypeRef, name).val

N_flexed == StrOf(<<"f", "l", "e", "x">>)
N_decian == StrOf(<<"d", "e", "c">>)
N_hidden == StrOf(<<"h", "i", "d">>)
N_yari == StrOf(<<"y", "a", "r", "i">>)
N_dogme == StrOf(<<"d", "o", "g">>)
N_clarkia == StrOf(<<"c", "l", "a">>)
N_cowered == StrOf(<<"_", "c", "o", "w">>)
N_oldField == StrOf(<<"o", "l", "d">>)
N_toma == StrOf(<<"t", "o", "m", "a">>)
N_untyped == StrOf(<<"u", "n", "t">>)
N_membuka == StrOf(<<"m", "e", "m">>)
N_modist == StrOf(<<"m", "o", "d">>)
N_plain == StrOf(<<"p", "l", "a">>)
N_Foo == StrOf(<<"F", "o", "o">>)
N_Empty == StrOf(<<"E", "m", "p">>)
N_bar == StrOf(<<"b", "a", "r">>)
N_hid == StrOf(<<"_", "h", "i", "d">>)
N_foo == StrOf(<<"f", "o", "o">>)
N_getFoo == StrOf(<<"g", "e", "t">>)
N_setFoo == StrOf(<<"s", "e", "t">>)
N_arg == StrOf(<<"a", "r", "g">>)
N_map == StrOf(<<"m", "a", "p">>)
N_rec == StrOf(<<"r", "e", "c">>)
N_emp == StrOf(<<"e", "m", "p">>)
N_bad == StrOf(<<"b", "-", "d">>)
N_Missing == StrOf(<<"N", "o", "n", "e">>)
N_obsolete == StrOf(<<"o", "b", "s">>)
N_frayed == StrOf(<<"f", "r", "a", "y">>)
N_skip == StrOf(<<"s", "k", "i", "p">>)
N_if == StrOf(<<"i", "f">>)
N_deprecated == StrOf(<<"d", "e", "p", "r">>)
N_reason == StrOf(<<"r", "e", "a", "s">>)
N_range == StrOf(<<"r", "a", "n", "g", "e">>)
N_lo == StrOf(<<"l", "o">>)
N_hi == StrOf(<<"h", "i">>)
N_mark == StrOf(<<"m", "a", "r", "k">>)
N_typename == StrOf(<<"_", "_", "t", "y", "p", "e", "n", "a", "m", "e">>)

\* _BUILTIN_DIRECTIVES (skip and deprecated of them), and a catalog given
\* through __directives__ with a directive of two arguments and one of none
BuiltinDirectives ==
    << Directive(N_skip, <<Argument(N_if, NON_NULL(SCALAR(ScalarBoolean)), PyNone)>>),
       Directive(N_deprecated, <<Argument(N_reason, SCALAR(ScalarString), PyNone)>>) >>
CustomDirectives ==
    << Directive(N_range, << Argument(N_lo, NON_NULL(SCALAR(ScalarInt)), PyNone),
                             Argument(N_hi, SCALAR(ScalarInt), PyNone) >>),
       Directive(N_mark, <<>>) >>

\* the graph of test_introspection_query, cut down, with an untyped field
SchemaNodes ==
    SchemaInfo(
        << TypedNode(N_flexed, <<
               TypedField(N_yari, Boolean,
                          << TypedOption(N_membuka, SequenceOf(String),
                                         PyList(<<N_frayed>>)),
                             TypedOption(N_modist, OptionalOf(Integer), PyNone),
                             TypedOption(N_plain, Boolean, Nothing) >>, <<>>) >>),
           TypedNode(N_decian, <<
               TypedField(N_dogme, Integer, <<>>, <<>>),
               TypedLink(N_clarkia, SequenceOf(DataRef(N_flexed)), <<>>, <<>>) >>) >>,
        << TypedField(N_cowered, String, <<>>, <<>>),
           TypedField(N_oldField, Float, <<>>, <<N_obsolete>>),
           TypedLink(N_toma, SequenceOf(DataRef(N_decian)), <<>>, <<N_obsolete>>),
           TypedField(N_untyped, PyNone, <<>>, <<>>) >>,
        <<>>, <<>>, BuiltinDirectives)

\* the graphs of test_data_types and test_mutation_type, with two nodes, a
\* record that
\* has a field named _hid, an empty record, and fields of a Mapping and of an
\* inline Record
SchemaData ==
    SchemaInfo(
        << TypedNode(N_flexed, <<TypedField(N_yari, Boolean, <<>>, <<>>)>>),
           TypedNode(N_decian, <<TypedField(N_dogme, Integer, <<>>, <<>>)>>) >>,
        << TypedField(N_foo, DataRef(N_Foo), <<>>, <<>>),
           TypedField(N_getFoo, Integer,
                      <<TypedOption(N_arg, DataRef(N_Foo), Nothing)>>, <<>>),
           TypedField(N_emp, OptionalOf(DataRef(N_Empty)), <<>>, <<>>),
           TypedField(N_map, MappingOf(String, Integer), <<>>, <<>>),
           TypedField(N_rec, OptionalOf(RecordOf(<<PyPair(N_bar, Integer)>>)),
                      <<TypedOption(N_plain, OptionalOf(Any), PyBool(FALSE))>>, <<>>) >>,
        << << TypedField(N_setFoo, Integer,
                         <<TypedOption(N_arg, DataRef(N_Foo), Nothing)>>, <<>>) >> >>,
        << PyPair(N_Foo, RecordOf(<<PyPair(N_bar, Integer), PyPair(N_hid, String)>>)),
           PyPair(N_Empty, RecordOf(<<>>)) >>,
        CustomDirectives)

\* a node all of whose fields begin with '_', and an option whose type
\* refers to a node
SchemaHidden ==
    SchemaInfo(
        << TypedNode(N_hidden, <<TypedField(N_hid, Integer, <<>>, <<>>)>>) >>,
        << TypedLink(N_toma, OptionalOf(DataRef(N_hidden)),
                     <<TypedOption(N_arg, DataRef(N_hidden), Nothing)>>, <<>>) >>,
        <<>>, <<>>, BuiltinDirectives)

\* a graph that ValidateGraph rejects
SchemaInvalid ==
    SchemaInfo(
        << TypedNode(N_bad, <<>>) >>,
        << TypedField(N_bad, Integer, <<>>, <<>>) >>,
        <<>>, <<>>, BuiltinDirectives)

SchemaCatalog == {SchemaNodes, SchemaData, SchemaHidden, SchemaInvalid}

(***************************************************************************)
(* The meta-schema graph and the transformers that bind it.  A resolver is *)
(* an object: a module-level function, a functools.partial of a callable   *)
(* or the coroutine function _async_wrapper returns; oid is its identity.  *)
(***************************************************************************)
\* the module-level functions that GRAPH and __type_name__ refer to
Functions ==
    << "type_info",
       "type_fields_link",
       "na_many",
       "type_input_object_input_fields_link",
       "type_of_type_link",
       "field_info",
       "field_args_link",
       "field_type_link",
       "input_value_info",
       "input_value_type_link",
       "directive_value_info",
       "directive_args_link",
       "not_implemented",
       "root_schema_types",
       "root_schema_query_type",
       "root_schema_mutation_type",
       "na_maybe",
       "root_schema_directives",
       "schema_link",
       "type_link",
       "type_name_field_func" >>
Callables(kind, oid, name, of, node_name) ==
    [kind |-> kind, oid |-> oid, name |-> name, of |-> of, node_name |-> node_name]
\* the function object called name
Function(name) ==
    Callables("function", CHOOSE i \in 1..Len(Functions) : Functions[i] = name,
              name, 0, PyNone)
\* a resolver the user wrote, one for each field or link: the k-th of them
UserFunction(k) == Callables("function", Len(Functions) + k, "user", 0, PyNone)
\* the first identity that an object made during apply can get, above those
\* of the module's functions and of the user's resolvers
FirstOid == Len(Functions) + 100
\* partial(func, self.schema), a new object
partial_schema(oid, func) == Callables("partial", oid, func.name, func.oid, PyNone)
\* partial(type_name_field_func, node_name), a new object
partial_node_name(oid, node_name) ==
    Callables("partial", oid, "type_name_field_func",
              Function("type_name_field_func").oid, node_name)
\* _async_wrapper(func), a new object
_async_wrapper(oid, func) == Callables("wrapper", oid, func.name, func.oid, func.node_name)

\* a Field or Link with its resolver, a Node or Root with its members
GraphMember(kind, name, func) == [kind |-> kind, name |-> name, func |-> func]
GraphItem(kind, name, fields) == [kind |-> kind, name |-> name, fields |-> fields]
\* GRAPH
GRAPH ==
    << GraphItem("Node", StrOf(<<"_", "_", "T", "y", "p", "e">>),
           << GraphMember("Field", StrOf(<<"i", "d">>), Function("type_info")),
              GraphMember("Field", StrOf(<<"k", "i", "n", "d">>), Function("type_info")),
              GraphMember("Field", StrOf(<<"n", "a", "m", "e">>), Function("type_info")),
              GraphMember("Field", StrOf(<<"d", "e", "s", "c", "r", "i", "p", "t", "i", "o", "n">>), Function("type_info")),
              GraphMember("Link", StrOf(<<"f", "i", "e", "l", "d", "s">>), Function("type_fields_link")),
              GraphMember("Link", StrOf(<<"i", "n", "t", "e", "r", "f", "a", "c", "e", "s">>), Function("na_many")),
              GraphMember("Link", StrOf(<<"p", "o", "s", "s", "i", "b", "l", "e", "T", "y", "p", "e", "s">>), Function("na_many")),
              GraphMember("Link", StrOf(<<"e", "n", "u", "m", "V", "a", "l", "u", "e", "s">>), Function("na_many")),
              GraphMember("Link", StrOf(<<"i", "n", "p", "u", "t", "F", "i", "e", "l", "d", "s">>), Function("type_input_object_input_fields_link")),
              GraphMember("Link", StrOf(<<"o", "f", "T", "y", "p", "e">>), Function("type_of_type_link")) >>),
       GraphItem("Node", StrOf(<<"_", "_", "F", "i", "e", "l", "d">>),
           << GraphMember("Field", StrOf(<<"i", "d">>), Function("field_info")),
              GraphMember("Field", StrOf(<<"n", "a", "m", "e">>), Function("field_info")),
              GraphMember("Field", StrOf(<<"d", "e", "s", "c", "r", "i", "p", "t", "i", "o", "n">>), Function("field_info")),
              GraphMember("Link", StrOf(<<"a", "r", "g", "s">>), Function("field_args_link")),
              GraphMember("Link", StrOf(<<"t", "y", "p", "e">>), Function("field_type_link")),
              GraphMember("Field", StrOf(<<"i", "s", "D", "e", "p", "r", "e", "c", "a", "t", "e", "d">>), Function("field_info")),
              GraphMember("Field", StrOf(<<"d", "e", "p", "r", "e", "c", "a", "t", "i", "o", "n", "R", "e", "a", "s", "o", "n">>), Function("field_info")) >>),
       GraphItem("Node", StrOf(<<"_", "_", "I", "n", "p", "u", "t", "V", "a", "l", "u", "e">>),
           << GraphMember("Field", StrOf(<<"i", "d">>), Function("input_value_info")),
              GraphMember("Field", StrOf(<<"n", "a", "m", "e">>), Function("input_value_info")),
              GraphMember("Field", StrOf(<<"d", "e", "s", "c", "r", "i", "p", "t", "i", "o", "n">>), Function("input_value_info")),
              GraphMember("Link", StrOf(<<"t", "y", "p", "e">>), Function("input_value_type_link")),
              GraphMember("Field", StrOf(<<"d", "e", "f", "a", "u", "l", "t", "V", "a", "l", "u", "e">>), Function("input_value_info")) >>),
       GraphItem("Node", StrOf(<<"_", "_", "D", "i", "r", "e", "c", "t", "i", "v", "e">>),
           << GraphMember("Field", StrOf(<<"n", "a", "m", "e">>), Function("directive_value_info")),
              GraphMember("Field", StrOf(<<"d", "e", "s", "c", "r", "i", "p", "t", "i", "o", "n">>), Function("directive_value_info")),
              GraphMember("Field", StrOf(<<"l", "o", "c", "a", "t", "i", "o", "n", "s">>), Function("directive_value_info")),
              GraphMember("Link", StrOf(<<"a", "r", "g", "s">>), Function("directive_args_link")) >>),
       GraphItem("Node", StrOf(<<"_", "_", "E", "n", "u", "m", "V", "a", "l", "u", "e">>),
           << GraphMember("Field", StrOf(<<"n", "a", "m", "e">>), Function("not_implemented")),
              GraphMember("Field", StrOf(<<"d", "e", "s", "c", "r", "i", "p", "t", "i", "o", "n">>), Function("not_implemented")),
              GraphMember("Field", StrOf(<<"i", "s", "D", "e", "p", "r", "e", "c", "a", "t", "e", "d">>), Function("not_implemented")),
              GraphMember("Field", StrOf(<<"d", "e", "p", "r", "e", "c", "a", "t", "i", "o", "n", "R", "e", "a", "s", "o", "n">>), Function("not_implemented")) >>),
       GraphItem("Node", StrOf(<<"_", "_", "S", "c", "h", "e", "m", "a">>),
           << GraphMember("Link", StrOf(<<"t", "y", "p", "e", "s">>), Function("root_schema_types")),
              GraphMember("Link", StrOf(<<"q", "u", "e", "r", "y", "T", "y", "p", "e">>), Function("root_schema_query_type")),
              GraphMember("Link", StrOf(<<"m", "u", "t", "a", "t", "i", "o", "n", "T", "y", "p", "e">>), Function("root_schema_mutation_type")),
              GraphMember("Link", StrOf(<<"s", "u", "b", "s", "c", "r", "i", "p", "t", "i", "o", "n", "T", "y", "p", "e">>), Function("na_maybe")),
              GraphMember("Link", StrOf(<<"d", "i", "r", "e", "c", "t", "i", "v", "e", "s">>), Function("root_schema_directives")) >>),
       GraphItem("Root", PyNone,
           << GraphMember("Link", StrOf(<<"_", "_", "s", "c", "h", "e", "m", "a">>), Function("schema_link")),
              GraphMember("Link", StrOf(<<"_", "_", "t", "y", "p", "e">>), Function("type_link")) >>) >>

\* self._processed.get(obj.func): the entries kept for this very object
ProcessedMiss(processed, func) == <<>>
Processed_get(processed, func) ==
    SelectSeq(processed, LAMBDA e : e.key = func.oid)

\* the visit of a GraphTransformer that rewraps the resolvers: a field gets
\* the wrapper kept in _processed for its resolver, or a new one that is
\* then kept; a link always gets a new one.  wrap tells how to wrap; the
\* members from number j of item i on are still to be visited.
RewrapOne(wrap, oid, func) ==
    IF wrap = "partial" THEN partial_schema(oid, func) ELSE _async_wrapper(oid, func)
RECURSIVE Rewrap(_, _, _, _, _, _)
Rewrap(wrap, items, i, j, processed, next) ==
    IF i > Len(items) THEN [items |-> items, next |-> next]
    ELSE IF j > Len(items[i].fields) THEN Rewrap(wrap, items, i + 1, 1, processed, next)
    ELSE LET obj == items[i].fields[j]
             kept == Processed_get(processed, obj.func)
         IN  IF obj.kind = "Field" /\ kept # <<>>
             THEN Rewrap(wrap, [items EXCEPT ![i].fields[j].func = kept[1].val],
                         i, j + 1, processed, next)
             ELSE Rewrap(wrap,
                         [items EXCEPT ![i].fields[j].func =
                                           RewrapOne(wrap, next, obj.func)],
                         i, j + 1,
                         IF obj.kind = "Field"
                         THEN Append(processed,
                                     [key |-> obj.func.oid,
                                      val |-> RewrapOne(wrap, next, obj.func)])
                         ELSE processed,
                         next + 1)

\* BindToSchema(schema).visit(graph)
BindToSchema(items, next) == Rewrap("partial", items, 1, 1, <<>>, next)
\* MakeAsync().visit(graph)
MakeAsync(items, next) == Rewrap("wrapper", items, 1, 1, <<>>, next)

\* GraphQLIntrospection.__type_name__ and AsyncGraphQLIntrospection's
__type_name__(cls, oid, node_name) ==
    GraphMember("Field", N_typename,
                IF cls = "AsyncGraphQLIntrospection"
                THEN _async_wrapper(oid + 1, partial_node_name(oid, node_name))
                ELSE partial_node_name(oid, node_name))

\* __introspection_graph__ of the two classes
__introspection_graph__(cls, next) ==
    IF cls = "AsyncGraphQLIntrospection"
    THEN MakeAsync(BindToSchema(GRAPH, next).items, BindToSchema(GRAPH, next).next)
    ELSE BindToSchema(GRAPH, next)

\* GraphQLIntrospection.visit_node and visit_root: the copy of the item with
\* __typename appended; the i-th item takes its new objects from oid on
VisitWithoutTypename(cls, item, oid) == item
GraphQLIntrospection_visit(cls, item, oid) ==
    [item EXCEPT !.fields =
        Append(@, __type_name__(cls, oid,
                                IF item.kind = "Root" THEN QUERY_ROOT_NAME
                                ELSE item.name))]

\* GraphQLIntrospection.visit_graph after validation: the items of the graph
\* it returns
GraphQLIntrospection_visit_graph(cls, given) ==
    LET introspection_graph == __introspection_graph__(cls, FirstOid)
    IN  [i \in 1..Len(given) |->
            GraphQLIntrospection_visit(cls, given[i],
                                       introspection_graph.next + 2 * (i - 1))]
        \o introspection_graph.items

\* the items of a query graph that SchemaInfo describes, with the Root
\* before or after the nodes
UserMembers(fields, base) ==
    [j \in 1..Len(fields) |-> GraphMember(fields[j].kind, fields[j].name, UserFunction(base + j))]
UserItems(sch, root_first) ==
    LET nodes == [i \in 1..Len(sch.nodes) |->
                     GraphItem("Node", sch.nodes[i].name,
                               UserMembers(sch.nodes[i].fields, 10 * i))]
        root == <<GraphItem("Root", PyNone, UserMembers(sch.root, 0))>>
    IN  IF root_first THEN root \o nodes ELSE nodes \o root

Unbound == [cls |-> "", given |-> <<>>, items |-> <<>>]
\* the coroutine that calling an _async_wrapper'd resolver returns: func is
\* what the wrapped call func(*args, **kwargs) does once the body runs
NoCoro == [state |-> "", func |-> Ok(<<>>), exc |-> "", rows |-> <<>>, suspensions |-> 0]
Coroutine(r) ==
    [state |-> "created", func |-> r, exc |-> "", rows |-> <<>>, suspensions |-> 0]
\* the body of wrapper, run by await: return func(*args, **kwargs)
WrapperSwallows(c) ==
    [c EXCEPT !.state = "done", !.rows = c.func.val]
wrapper(c) ==
    [c EXCEPT !.state = "done", !.exc = c.func.exc,
              !.rows = IF c.func.exc = "" THEN c.func.val ELSE <<>>]

(***************************************************************************)
(* Binding the introspection to a schema and querying it.  The query       *)
(* engine calls one resolver at a time with the identities the previous    *)
(* link gave; at is the meta-schema node the identities belong to, call    *)
(* the last resolver call with its arguments and what it returned.         *)
(***************************************************************************)
NoCall == [fn |-> "", ids |-> <<>>, exc |-> "", rows |-> <<>>]
Called(fn, idl, r) ==
    [fn |-> fn, ids |-> idl, exc |-> r.exc, rows |-> IF r.exc = "" THEN r.val ELSE <<>>]

\* the identities a link's rows lead to, each once: a row of a Many link is
\* a list, a row of a Maybe link an identity or Nothing
RECURSIVE Distinct(_)
Distinct(xs) ==
    IF xs = <<>> THEN <<>>
    ELSE LET d == Distinct(SubSeq(xs, 1, Len(xs) - 1))
         IN  IF \E i \in 1..Len(d) : d[i] = xs[Len(xs)] THEN d ELSE Append(d, xs[Len(xs)])
LinkedIds(rows) ==
    Distinct(Flatten([i \in 1..Len(rows) |->
                         IF rows[i].kind = "list" THEN rows[i].items
                         ELSE IF rows[i] = Nothing THEN <<>> ELSE <<rows[i]>>]))

\* ValidateGraph.validate(obj) raises ValueError: some node, field, link or
\* option name does not match _name_re, or some node has no fields
ValidateGraph_raises(sch) ==
    \/ \E i \in 1..Len(sch.nodes) : ~_name_re(Chars(sch.nodes[i].name))
    \/ \E i \in 1..Len(sch.nodes) : sch.nodes[i].fields = <<>>
    \/ sch.root = <<>>
    \/ \E i \in 1..Len(sch.nodes \o <<TypedNode(QUERY_ROOT_NAME, sch.root)>>) :
          LET fs == (sch.nodes \o <<TypedNode(QUERY_ROOT_NAME, sch.root)>>)[i].fields
          IN  \E j \in 1..Len(fs) :
                 \/ ~_name_re(Chars(fs[j].name))
                 \/ \E o \in 1..Len(fs[j].options) : ~_name_re(Chars(fs[j].options[o].name))

\* apply(graph, [cls(graph, mutation_graph)]): visit_graph of
\* GraphQLIntrospection or of AsyncGraphQLIntrospection, which inherits it
Apply ==
    /\ applied = ""
    /\ applied' = IF ValidateGraph_raises(schema) THEN "ValueError" ELSE "ok"
    /\ at' = IF ValidateGraph_raises(schema) THEN "error" ELSE "Root"
    /\ \E cls \in {"GraphQLIntrospection", "AsyncGraphQLIntrospection"},
          root_first \in BOOLEAN :
          \E given \in {UserItems(schema, root_first)} :
             bound' = [cls |-> cls, given |-> given,
                       items |-> IF ValidateGraph_raises(schema) THEN <<>>
                                 ELSE GraphQLIntrospection_visit_graph(cls, given)]
    /\ UNCHANGED <<schema, ids, call, hops, coro, typeVars, projVars, valVars>>

\* a resolver of fields is called: the engine stays at the node.  r is
\* what the resolver does with the arguments; a resolver of the async graph
\* does it inside the coroutine that the call returns
Served(fn, idl, r) ==
    /\ hops < MaxHops
    /\ hops' = hops + 1
    /\ call' = Called(fn, idl, r)
    /\ at' = IF r.exc = "" THEN at ELSE "error"
    /\ ids' = IF r.exc = "" THEN ids ELSE <<>>
    /\ coro.state # "created"
    /\ coro' = IF bound.cls = "AsyncGraphQLIntrospection" THEN Coroutine(r) ELSE NoCoro
    /\ UNCHANGED <<schema, applied, bound, typeVars, projVars, valVars>>

\* a resolver of a link is called: the engine moves to the link's node
Followed(fn, idl, r, node) ==
    /\ hops < MaxHops
    /\ hops' = hops + 1
    /\ call' = Called(fn, idl, r)
    /\ at' = IF r.exc = "" THEN node ELSE "error"
    /\ ids' = IF r.exc = "" THEN LinkedIds(r.val) ELSE <<>>
    /\ coro.state # "created"
    /\ coro' = IF bound.cls = "AsyncGraphQLIntrospection" THEN Coroutine(r) ELSE NoCoro
    /\ UNCHANGED <<schema, applied, bound, typeVars, projVars, valVars>>

\* the names __type is asked for: every type's name, 'IO' + N for the data
\* types, and names of no type
TypeNames(sch) ==
    {_nodes_map(sch)[i].name : i \in 1..Len(_nodes_map(sch))}
    \cup {DictKeys(sch.data_types)[i] : i \in 1..Len(sch.data_types)}
    \cup {Concat(StrOf(<<"I", "O">>), DictKeys(sch.data_types)[i]) :
             i \in 1..Len(sch.data_types)}
    \cup {N_Missing, MUTATION_ROOT_NAME}
    \cup {GRAPH[i].name : i \in 1..(Len(GRAPH) - 1)}

\* Root.__type(name:)
CallTypeLink ==
    /\ at = "Root"
    /\ \E name \in TypeNames(schema) :
          \E r \in {Ok(<<type_link(schema, name)>>)} :
             Followed("type_link", <<name>>, r, "__Type")

\* Root.__schema.types
CallSchemaTypes ==
    /\ at = "Root"
    /\ \E r \in {Ok(<<PyList(root_schema_types(schema))>>)} :
          Followed("root_schema_types", <<>>, r, "__Type")

\* Root.__schema.queryType
CallSchemaQueryType ==
    /\ at = "Root"
    /\ \E r \in {Ok(<<root_schema_query_type(schema)>>)} :
          Followed("root_schema_query_type", <<>>, r, "__Type")

\* Root.__schema.mutationType
CallSchemaMutationType ==
    /\ at = "Root"
    /\ \E r \in {Ok(<<root_schema_mutation_type(schema)>>)} :
          Followed("root_schema_mutation_type", <<>>, r, "__Type")

\* Root.__schema.directives
CallSchemaDirectives ==
    /\ at = "Root"
    /\ \E r \in {Ok(<<PyList(root_schema_directives(schema))>>)} :
          Followed("root_schema_directives", <<>>, r, "__Directive")

\* the resolver of a __typename field that apply added is called: with no
\* ids for the Root's, with the ids of up to MaxItems objects for a node's
\* (an object's id is here the name of its node)
CallTypeName ==
    /\ at = "Root"
    /\ \E i \in 1..Len(bound.given) :
          LET obj == bound.items[i].fields[Len(bound.items[i].fields)]
          IN  IF bound.items[i].kind = "Root"
              THEN \E r \in {type_name_field_func(obj.func.node_name, TRUE, <<>>)} :
                      Served("type_name_field_func(ids=None)", <<>>, r)
              ELSE \E n \in 0..MaxItems :
                      \E r \in {type_name_field_func(
                                    obj.func.node_name, FALSE,
                                    [k \in 1..n |-> bound.items[i].name])} :
                         Served("type_name_field_func",
                                [k \in 1..n |-> bound.items[i].name], r)

CallTypeInfo ==
    /\ at = "__Type"
    /\ \E r \in {type_info(schema, ids)} : Served("type_info", ids, r)

\* interfaces, enumValues, possibleTypes
CallNaMany ==
    /\ at = "__Type"
    /\ \E r \in {na_many(schema, ids)} : Served("na_many", ids, r)

CallTypeFields ==
    /\ at = "__Type"
    /\ \E r \in {type_fields_link(schema, ids)} :
          Followed("type_fields_link", ids, r, "__Field")

CallOfType ==
    /\ at = "__Type"
    /\ \E r \in {type_of_type_link(schema, ids)} :
          Followed("type_of_type_link", ids, r, "__Type")

CallInputFields ==
    /\ at = "__Type"
    /\ \E r \in {type_input_object_input_fields_link(schema, ids)} :
          Followed("type_input_object_input_fields_link", ids, r, "__InputValue")

CallFieldInfo ==
    /\ at = "__Field"
    /\ \E r \in {field_info(schema, ids)} : Served("field_info", ids, r)

CallFieldType ==
    /\ at = "__Field"
    /\ \E r \in {field_type_link(schema, ids)} :
          Followed("field_type_link", ids, r, "__Type")

CallFieldArgs ==
    /\ at = "__Field"
    /\ \E r \in {field_args_link(schema, ids)} :
          Followed("field_args_link", ids, r, "__InputValue")

CallInputValueInfo ==
    /\ at = "__InputValue"
    /\ \E r \in {input_value_info(schema, ids)} : Served("input_value_info", ids, r)

CallInputValueType ==
    /\ at = "__InputValue"
    /\ \E r \in {input_value_type_link(schema, ids)} :
          Followed("input_value_type_link", ids, r, "__Type")

CallDirectiveInfo ==
    /\ at = "__Directive"
    /\ \E r \in {directive_value_info(schema, ids)} :
          Served("directive_value_info", ids, r)

\* __Directive.args requires 'name': the engine passes the names that
\* directive_value_info gave
CallDirectiveArgs ==
    /\ at = "__Directive"
    /\ \E names \in {[i \in 1..Len(directive_value_info(schema, ids).val) |->
                        Col(directive_value_info(schema, ids).val[i],
                            DirectiveInfoFields, "name")]} :
          \E r \in {directive_args_link(schema, names)} :
             Followed("directive_args_link", names, r, "__InputValue")

\* the async engine awaits the coroutine it got
Await ==
    /\ coro.state = "created"
    /\ coro' = wrapper(coro)
    /\ UNCHANGED <<schema, applied, at, ids, call, hops, bound,
                   typeVars, projVars, valVars>>

InitIntro ==
    /\ schema \in SchemaCatalog
    /\ applied = ""
    /\ at = ""
    /\ ids = <<>>
    /\ call = NoCall
    /\ hops = 0
    /\ bound = Unbound
    /\ coro = NoCoro
    /\ TypesParked /\ ProjParked /\ ValParked

NextIntro ==
    \/ Apply
    \/ CallTypeLink
    \/ CallSchemaTypes
    \/ CallSchemaQueryType
    \/ CallSchemaMutationType
    \/ CallSchemaDirectives
    \/ CallTypeName
    \/ CallTypeInfo
    \/ CallNaMany
    \/ CallTypeFields
    \/ CallOfType
    \/ CallInputFields
    \/ CallFieldInfo
    \/ CallFieldType
    \/ CallFieldArgs
    \/ CallInputValueInfo
    \/ CallInputValueType
    \/ CallDirectiveInfo
    \/ CallDirectiveArgs
    \/ Await

SpecIntro == InitIntro /\ [][NextIntro]_vars

(***************************************************************************)
(* The contract of the introspection resolvers.                            *)
(***************************************************************************)
BatchResolvers ==
    {"type_info", "type_fields_link", "type_of_type_link", "field_info",
     "field_type_link", "field_args_link", "type_input_object_input_fields_link",
     "input_value_info", "input_value_type_link", "directive_value_info",
     "directive_args_link", "na_many", "type_name_field_func"}
InfoFieldsOf(fn) ==
    CASE fn = "type_info" -> TypeInfoFields
      [] fn = "field_info" -> FieldInfoFields
      [] OTHER -> InputValueInfoFields

\* C12: a resolver that is given a list of identities and returns, returns
\* exactly one row per identity, and the row an info resolver returns at
\* position i carries identity i.
C12_OneRowPerIdentity ==
    (call.fn \in BatchResolvers /\ call.exc = "") =>
        /\ Len(call.rows) = Len(call.ids)
        /\ call.fn \in {"type_info", "field_info", "input_value_info"} =>
              \A i \in 1..Len(call.ids) :
                 Col(call.rows[i], InfoFieldsOf(call.fn), "id") = call.ids[i]

\* C13: __type(name: N) for a record N of the data types resolves to
\* OBJECT(N), and __type(name: 'IO' + N) to the INPUT_OBJECT of N.
C13_DataTypeByName ==
    call.fn = "type_link" =>
        \A i \in 1..Len(RecordNames(schema)) :
           /\ call.ids = <<RecordNames(schema)[i]>> =>
                 call.rows = <<OBJECT(RecordNames(schema)[i])>>
           /\ call.ids = <<Concat(StrOf(<<"I", "O">>), RecordNames(schema)[i])>> =>
                 call.rows = <<INPUT_OBJECT(RecordNames(schema)[i])>>

\* the names of the types of a schema: the scalars, the nodes and roots, the
\* data types and their input objects
IsTypeName(sch, name) ==
    \/ name \in {ScalarString, ScalarInt, ScalarBoolean, ScalarFloat, ScalarAny}
    \/ name \in {sch.nodes[i].name : i \in 1..Len(sch.nodes)}
    \/ name = QUERY_ROOT_NAME
    \/ name = MUTATION_ROOT_NAME /\ sch.mutation # <<>>
    \/ \E i \in 1..Len(sch.data_types) :
          \/ name = DictKeys(sch.data_types)[i]
          \/ name = Concat(StrOf(<<"I", "O">>), DictKeys(sch.data_types)[i])

\* C14: __type(name: X) for a name X of no type of the schema resolves to
\* Nothing and raises no error.
C14_UnknownTypeAbsent ==
    (call.fn = "type_link" /\ ~IsTypeName(schema, call.ids[1])) =>
        call.exc = "" /\ call.rows = <<Nothing>>
\* __type was asked for a name of no type, in a schema with a mutation graph
C14_Witness ==
    /\ call.fn = "type_link"
    /\ call.ids = <<N_Missing>>
    /\ schema.mutation # <<>>
    /\ call.rows = <<Nothing>>

\* C15: the fields listed for a type, be it a node, a root or a data-type
\* record, hold no field whose name begins with '_', other than __typename.
C15_UnderscoreFieldsHidden ==
    (call.fn = "type_fields_link" /\ call.exc = "") =>
        \A i \in 1..Len(call.rows) : \A j \in 1..Len(call.rows[i].items) :
           \/ ~StartsWith(call.rows[i].items[j].items[2], "_")
           \/ call.rows[i].items[j].items[2] = N_typename

\* a schema with a type of zero resolvable fields: a node or root whose
\* fields all begin with '_', or an empty data-type record
HasEmptyType(sch) ==
    \/ \E i \in 1..Len(_nodes_map(sch)) : ExposedFields(_nodes_map(sch)[i]) = <<>>
    \/ \E i \in 1..Len(RecordNames(sch)) :
          DictGet(DictGet(sch.data_types, RecordNames(sch)[i]).items,
                  PyStr("__field_types__")).items = <<>>

\* C16: applying the introspection transform to a schema that has a type of
\* zero resolvable fields fails, so no query ever runs against it.
C16_EmptyTypeRejectedAtBind ==
    (applied # "" /\ HasEmptyType(schema)) => applied # "ok"

\* the declaration of the field or link that a FieldIdent of a node names
DeclaredField(sch, ident) ==
    ByName(ByName(_nodes_map(sch), ident.items[1]).fields, ident.items[2])

\* C17: field_info reports, for a field or link of a node, isDeprecated true
\* and the directive's reason iff the field carries a deprecation directive,
\* and otherwise, and for every field of a data-type record, false and null.
C17_DeprecationFromDirective ==
    (call.fn = "field_info" /\ call.exc = "") =>
        /\ Len(call.rows) = Len(call.ids)
        /\ \A i \in 1..Len(call.ids) :
              LET isDeprecated == Col(call.rows[i], FieldInfoFields, "isDeprecated")
                  deprecationReason == Col(call.rows[i], FieldInfoFields, "deprecationReason")
              IN  IF /\ HasName(_nodes_map(schema), call.ids[i].items[1])
                     /\ DeclaredField(schema, call.ids[i]).deprecated # <<>>
                  THEN /\ isDeprecated = PyBool(TRUE)
                       /\ deprecationReason = DeclaredField(schema, call.ids[i]).deprecated[1]
                  ELSE /\ isDeprecated = PyBool(FALSE)
                       /\ deprecationReason = PyNone
\* field_info served a deprecated link together with a field that does not
\* carry the directive
C17_Witness ==
    /\ call.fn = "field_info"
    /\ call.exc = ""
    /\ \E i \in 1..Len(call.ids) :
          /\ DeclaredField(schema, call.ids[i]).kind = "Link"
          /\ Col(call.rows[i], FieldInfoFields, "deprecationReason") = N_obsolete
    /\ \E i \in 1..Len(call.ids) :
          Col(call.rows[i], FieldInfoFields, "isDeprecated") = PyBool(FALSE)

\* the number of NON_NULL and LIST wrappers around an identity's leaf
RECURSIVE Wrappers(_)
Wrappers(ident) ==
    IF IsIdent(ident, "NON_NULL") \/ IsIdent(ident, "LIST")
    THEN 1 + Wrappers(ident.items[1])
    ELSE 0
\* following ofType from ident gives absence within fuel steps
RECURSIVE ReachesLeaf(_, _)
ReachesLeaf(ident, fuel) ==
    LET inner == type_of_type_link(schema, <<ident>>).val[1]
    IN  IF inner = Nothing THEN IsIdent(ident, "SCALAR") \/ IsIdent(ident, "OBJECT")
                                \/ IsIdent(ident, "INPUT_OBJECT")
        ELSE fuel > 0 /\ ReachesLeaf(inner, fuel - 1)

\* C18: ofType of a NON_NULL or LIST identity is its inner identity, which
\* has one wrapper less, and of any other identity is Nothing; from every
\* identity the engine holds for a type, following ofType reaches a leaf in
\* as many steps as the identity has wrappers.
C18_OfTypeUnwraps ==
    /\ (call.fn = "type_of_type_link" /\ call.exc = "") =>
          /\ Len(call.rows) = Len(call.ids)
          /\ \A i \in 1..Len(call.ids) :
                IF call.ids[i].tag \in {"NON_NULL", "LIST"}
                THEN /\ call.rows[i] = call.ids[i].items[1]
                     /\ Wrappers(call.rows[i]) < Wrappers(call.ids[i])
                ELSE call.rows[i] = Nothing
    /\ at = "__Type" =>
          \A i \in 1..Len(ids) : ReachesLeaf(ids[i], Wrappers(ids[i]))
\* ofType was followed from a LIST and from a SCALAR in one call, after an
\* earlier ofType call had removed the NON_NULL around the LIST
C18_Witness ==
    /\ call.fn = "type_of_type_link"
    /\ call.exc = ""
    /\ \E i \in 1..Len(call.ids) :
          IsIdent(call.ids[i], "LIST") /\ IsIdent(call.rows[i], "NON_NULL")
    /\ \E i \in 1..Len(call.ids) :
          IsIdent(call.ids[i], "SCALAR") /\ call.rows[i] = Nothing

\* the type declared for what an identity names: a field or link of a node,
\* a field of a data-type record, an option, a field of an input object
DeclaredType(sch, ident) ==
    CASE IsIdent(ident, "FieldArgIdent") -> OptionOf(sch, ident).val.type
      [] IsIdent(ident, "FieldIdent") /\ HasName(_nodes_map(sch), ident.items[1]) ->
            DeclaredField(sch, ident).type
      [] OTHER -> DataFieldType(sch, ident.items[1], ident.items[2]).val
\* the identity that the rules give for a declared type
RECURSIVE RuledIdent(_, _)
RuledIdent(type, input) ==
    CASE type = Boolean -> NON_NULL(SCALAR(ScalarBoolean))
      [] type = String -> NON_NULL(SCALAR(ScalarString))
      [] type = Integer -> NON_NULL(SCALAR(ScalarInt))
      [] type = Float -> NON_NULL(SCALAR(ScalarFloat))
      [] IsInstance(type, "SequenceMeta") ->
            NON_NULL(LIST(RuledIdent(DictGet(type.items, PyStr("__item_type__")), input)))
      [] IsInstance(type, "OptionalMeta") ->
            LET inner == RuledIdent(DictGet(type.items, PyStr("__type__")), input)
            IN  IF inner.tag = "NON_NULL" THEN inner.items[1] ELSE inner
      [] IsInstance(type, "TypeRefMeta") ->
            IF input THEN NON_NULL(INPUT_OBJECT(DictGet(type.items, PyStr("__type_name__"))))
            ELSE NON_NULL(OBJECT(DictGet(type.items, PyStr("__type_name__"))))
      [] OTHER -> SCALAR(ScalarAny)
\* every TypeRef inside the type names a data type
RECURSIVE RefsInRegistry(_, _)
RefsInRegistry(sch, type) ==
    CASE IsInstance(type, "SequenceMeta") ->
            RefsInRegistry(sch, DictGet(type.items, PyStr("__item_type__")))
      [] IsInstance(type, "OptionalMeta") ->
            RefsInRegistry(sch, DictGet(type.items, PyStr("__type__")))
      [] IsInstance(type, "TypeRefMeta") ->
            DictHas(sch.data_types, DictGet(type.items, PyStr("__type_name__")))
      [] OTHER -> TRUE
\* the call resolved the types of fields, links, options or input fields
TypeCall ==
    /\ call.fn \in {"field_type_link", "input_value_type_link"}
    /\ \A i \in 1..Len(call.ids) : ~IsIdent(call.ids[i], "DirectiveArgIdent")
RuledRows ==
    /\ call.exc = ""
    /\ Len(call.rows) = Len(call.ids)
    /\ \A i \in 1..Len(call.ids) :
          call.rows[i] = RuledIdent(DeclaredType(schema, call.ids[i]),
                                    call.fn = "input_value_type_link")
\* an INPUT_OBJECT is displayed as 'IO' + N
InputObjectNamed ==
    (call.fn = "type_info" /\ call.exc = "") =>
        \A i \in 1..Len(call.ids) :
           IsIdent(call.ids[i], "INPUT_OBJECT") =>
              Col(call.rows[i], TypeInfoFields, "name")
                 = Concat(StrOf(<<"I", "O">>), call.ids[i].items[1])

\* C19, as stated: the identity resolved for every declared type is the one
\* the rules give (scalars NON_NULL, Sequence NON_NULL(LIST), Optional
\* without the outer NON_NULL, Any/untyped/Mapping/Record the SCALAR Any,
\* TypeRef[N] NON_NULL(OBJECT N) for a field or link and
\* NON_NULL(INPUT_OBJECT N), displayed as 'IO' + N, for an option).
C19_IdentityOfType ==
    /\ TypeCall => RuledRows
    /\ InputObjectNamed
\* C19, amended: the same, for options only when every TypeRef of the
\* option's type names a data type; otherwise the resolver fails with an
\* AssertionError.
C19_IdentityOfTypeInRegistry ==
    /\ TypeCall =>
          IF \A i \in 1..Len(call.ids) :
                call.fn = "input_value_type_link" =>
                   RefsInRegistry(schema, DeclaredType(schema, call.ids[i]))
          THEN RuledRows
          ELSE call.exc = "AssertionError"
    /\ InputObjectNamed
\* the type of an option declared as a TypeRef to a data type was resolved
C19_Witness ==
    /\ call.fn = "input_value_type_link"
    /\ call.exc = ""
    /\ \E i \in 1..Len(call.ids) :
          /\ IsIdent(call.ids[i], "FieldArgIdent")
          /\ IsInstance(DeclaredType(schema, call.ids[i]), "TypeRefMeta")
          /\ call.rows[i] = NON_NULL(INPUT_OBJECT(N_Foo))

\* the JSON texts of the defaults that the options of the schemas carry
JsonText(default) ==
    CASE default = PyNone -> StrOf(<<"n", "u", "l", "l">>)
      [] default = PyBool(FALSE) -> StrOf(<<"f", "a", "l", "s", "e">>)
      [] default = PyList(<<N_frayed>>) ->
            StrOf(<<"[", "\"", "f", "r", "a", "y", "\"", "]">>)

\* C20: defaultValue of a field option is None exactly when the option has
\* no default, and otherwise the JSON text of the default ("null" for a
\* default of None); defaultValue of an input-object field is None.
C20_DefaultValueText ==
    (call.fn = "input_value_info" /\ call.exc = "") =>
        /\ Len(call.rows) = Len(call.ids)
        /\ \A i \in 1..Len(call.ids) :
              LET defaultValue == Col(call.rows[i], InputValueInfoFields, "defaultValue")
              IN  /\ IsIdent(call.ids[i], "FieldArgIdent") =>
                        LET default == OptionOf(schema, call.ids[i]).val.default
                        IN  /\ defaultValue = PyNone <=> default = Nothing
                            /\ default # Nothing => defaultValue = JsonText(default)
                  /\ IsIdent(call.ids[i], "InputObjectFieldIdent") => defaultValue = PyNone
\* one call served an option whose default is None, one whose default is a
\* list and one without default
C20_Witness ==
    /\ call.fn = "input_value_info"
    /\ call.exc = ""
    /\ \A i \in 1..Len(call.ids) : IsIdent(call.ids[i], "FieldArgIdent")
    /\ \E i \in 1..Len(call.ids) :
          /\ OptionOf(schema, call.ids[i]).val.default = PyNone
          /\ Col(call.rows[i], InputValueInfoFields, "defaultValue")
                = StrOf(<<"n", "u", "l", "l">>)
    /\ \E i \in 1..Len(call.ids) :
          OptionOf(schema, call.ids[i]).val.default = PyList(<<N_frayed>>)
    /\ \E i \in 1..Len(call.ids) :
          /\ OptionOf(schema, call.ids[i]).val.default = Nothing
          /\ Col(call.rows[i], InputValueInfoFields, "defaultValue") = PyNone

\* the types of a schema in the order of their declaration
DeclaredTypes(sch) ==
    << SCALAR(ScalarString), SCALAR(ScalarInt), SCALAR(ScalarBoolean),
       SCALAR(ScalarFloat), SCALAR(ScalarAny) >>
    \o [i \in 1..Len(sch.nodes) |-> OBJECT(sch.nodes[i].name)]
    \o <<OBJECT(QUERY_ROOT_NAME)>>
    \o (IF sch.mutation # <<>> THEN <<OBJECT(MUTATION_ROOT_NAME)>> ELSE <<>>)
    \o Flatten([i \in 1..Len(sch.data_types) |->
                   IF IsInstance(sch.data_types[i].items[2], "RecordMeta")
                   THEN << OBJECT(sch.data_types[i].items[1]),
                           INPUT_OBJECT(sch.data_types[i].items[1]) >>
                   ELSE <<>>])
\* the names of the fields declared for the type an identity names
DeclaredNames(sch, ident) ==
    IF IsIdent(ident, "OBJECT") /\ HasName(_nodes_map(sch), ident.items[1])
    THEN LET fs == ByName(_nodes_map(sch), ident.items[1]).fields
         IN  [i \in 1..Len(fs) |-> fs[i].name]
    ELSE IF (IsIdent(ident, "OBJECT") \/ IsIdent(ident, "INPUT_OBJECT"))
            /\ DictHas(sch.data_types, ident.items[1])
    THEN DictKeys(DictGet(DictGet(sch.data_types, ident.items[1]).items,
                          PyStr("__field_types__")).items)
    ELSE <<>>
\* names are taken from declared, in the order they have there
InDeclaredOrder(names, declared) ==
    \E pos \in [1..Len(names) -> 1..Len(declared)] :
       /\ \A j \in 1..Len(names) : declared[pos[j]] = names[j]
       /\ \A j, k \in 1..Len(names) : j < k => pos[j] < pos[k]
IdentNames(row) == [j \in 1..Len(row.items) |-> row.items[j].items[2]]

\* C21: __schema.types is the scalars, the nodes in declaration order,
\* Query, Mutation iff there is a mutation graph, and each Record data type
\* as OBJECT then INPUT_OBJECT; the fields and input fields of a type come
\* in declaration order; mutationType is Nothing iff there is no mutation
\* graph.
C21_TypesInOrder ==
    /\ call.fn = "root_schema_types" =>
          call.exc = "" /\ call.rows = <<PyList(DeclaredTypes(schema))>>
    /\ (call.fn \in {"type_fields_link", "type_input_object_input_fields_link"}
        /\ call.exc = "") =>
          \A i \in 1..Len(call.rows) :
             InDeclaredOrder(IdentNames(call.rows[i]), DeclaredNames(schema, call.ids[i]))
    /\ call.fn = "root_schema_mutation_type" =>
          /\ call.rows = <<Nothing>> <=> schema.mutation = <<>>
          /\ schema.mutation # <<>> => call.rows = <<OBJECT(MUTATION_ROOT_NAME)>>
\* the types of a schema with two nodes, a mutation graph and a Record data
\* type were listed
C21_Witness ==
    /\ call.fn = "root_schema_types"
    /\ Len(schema.nodes) = 2
    /\ schema.mutation # <<>>
    /\ Len(RecordNames(schema)) = 2
    /\ Len(call.rows[1].items) = 5 + 2 + 2 + 4

\* the names of the fields of all Root items of a graph, which Graph merges
\* into its root
RECURSIVE RootNames(_)
RootNames(items) ==
    IF items = <<>> THEN <<>>
    ELSE (IF items[1].kind = "Root"
          THEN [j \in 1..Len(items[1].fields) |-> items[1].fields[j].name]
          ELSE <<>>) \o RootNames(Tail(items))

\* C22: apply on a valid graph returns the user's items in their order, each
\* with its fields and one __typename field after them whose resolver is
\* type_name_field_func bound to the node's name ('Query' for the Root),
\* followed by the items of the meta-schema; the merged root has the user's
\* fields, __typename, __schema and __type; the resolver gives the name it
\* is bound to; a graph that fails validation gives no graph.
C22_TypenameAdded ==
    /\ applied = "ok" =>
          /\ Len(bound.items) = Len(bound.given) + Len(GRAPH)
          /\ \A i \in 1..Len(bound.given) :
                LET before == bound.given[i]
                    after == bound.items[i]
                    added == after.fields[Len(after.fields)]
                IN  /\ after.kind = before.kind /\ after.name = before.name
                    /\ Len(after.fields) = Len(before.fields) + 1
                    /\ SubSeq(after.fields, 1, Len(before.fields)) = before.fields
                    /\ added.name = N_typename
                    /\ added.func.name = "type_name_field_func"
                    /\ added.func.node_name =
                          (IF before.kind = "Root" THEN QUERY_ROOT_NAME ELSE before.name)
          /\ \A k \in 1..Len(GRAPH) :
                /\ bound.items[Len(bound.given) + k].kind = GRAPH[k].kind
                /\ bound.items[Len(bound.given) + k].name = GRAPH[k].name
          /\ RootNames(bound.items)
                = RootNames(bound.given)
                  \o <<N_typename, StrOf(<<"_", "_", "s", "c", "h", "e", "m", "a">>),
                       StrOf(<<"_", "_", "t", "y", "p", "e">>)>>
    /\ applied = "ValueError" => bound.items = <<>>
    /\ call.fn = "type_name_field_func(ids=None)" =>
          call.exc = "" /\ call.rows = <<QUERY_ROOT_NAME>>
    /\ call.fn = "type_name_field_func" =>
          /\ call.exc = ""
          /\ call.rows = [k \in 1..Len(call.ids) |-> PyList(<<call.ids[k]>>)]
\* __typename of two objects of a node was resolved in a graph that apply
\* returned with the Root before the nodes
C22_Witness ==
    /\ applied = "ok"
    /\ bound.given[1].kind = "Root"
    /\ Len(bound.given) = 3
    /\ call.fn = "type_name_field_func"
    /\ Len(call.rows) = 2

\* C23: awaiting the coroutine of an async resolver completes without a
\* suspension and gives the rows, or raises the error, that the resolver it
\* wraps gives for the same arguments.
C23_AsyncSameAsSync ==
    coro.state = "done" =>
        /\ coro.suspensions = 0
        /\ coro.exc = call.exc
        /\ coro.rows = call.rows
\* the coroutine of an async type_fields_link raised the resolver's
\* TypeError when it was awaited
C23_Witness ==
    /\ bound.cls = "AsyncGraphQLIntrospection"
    /\ coro.state = "done"
    /\ call.fn = "type_fields_link"
    /\ coro.exc = "TypeError"

(***************************************************************************)
(* Stack discipline of the projector.                                      *)
(***************************************************************************)
\* the visit_link calls on the caller's call stack: the links of the query
\* that enclose the item being visited
EnclosingLinks(fs) == Cardinality({i \in 1..Len(fs) : fs[i].fn = "visit_link"})
\* the instance as __init__ leaves it
FreshInstance == Inst(<<RootRecord>>, <<result>>, <<>>)

\* C24: whenever a field or link is visited the type, data and result
\* stacks have one depth, 1 plus the number of links of the query that
\* enclose the item; when process has returned, the type stack holds only
\* the root record, the data stack only the root proxy and the result stack
\* is empty; every call of process that passes its entry assertion starts
\* on the instance as a fresh one is, and what a later call returns for a
\* matching proxy is the projection a fresh instance returns.
C24_StackDiscipline ==
    /\ AtItem(1) =>
          /\ Len(_type) = 1 + EnclosingLinks(frames[1])
          /\ Len(_data) = Len(_type)
          /\ Len(_res) = Len(_type)
    /\ pc[1] = "done" => Self = FreshInstance
    /\ pc[1] = "entered" => Self = FreshInstance
    /\ (pc[1] = "done" /\ ncalls[1] >= 2 /\ ValidInput) =>
          Projects(ret[1], query, result) /\ InQueryOrder(ret[1], query)
\* the second call of process on the instance visits a field two links deep
C24_Witness ==
    /\ ncalls[1] = 2 /\ AtItem(1)
    /\ Item(1).kind = "Field"
    /\ EnclosingLinks(frames[1]) = 2
    /\ Len(_res) = 3

\* C25: a process call that ends with an error leaves a non-empty result
\* stack behind, the stacks as they stood when the error was raised; from
\* then on the instance's stacks never change again, and every later call
\* of process ends with the AssertionError of its entry assertion, neither
\* entering the traversal nor returning a result.
C25_ErrorPoisonsInstance ==
    [][ /\ pc'[1] = "error" => _res' # <<>>
        /\ pc[1] = "error" =>
              /\ _res # <<>>
              /\ <<_type, _data, _res>>' = <<_type, _data, _res>>
              /\ pc'[1] = "error" /\ exc'[1] = "AssertionError"
              /\ ret'[1] = PyNone ]_vars
\* the first call met the missing field m inside the first item of the list
\* xs; the second call was turned away, the item's frame still on the stacks
C25_Witness ==
    /\ query = <<Link("xs", "xs", QM)>>
    /\ pc[1] = "error" /\ ncalls[1] = 2 /\ exc[1] = "AssertionError"
    /\ Len(_type) = 2 /\ Len(_data) = 2 /\ Len(_res) = 2
    /\ DictHas(_res[2].items, PyStr("b"))

(***************************************************************************)
(* Termination of process.  A call of process, once entered, runs on: the  *)
(* interpreter executes its next statement.                                *)
(***************************************************************************)
Running(t) == InProcess(t) /\ Step(t)
SpecLive == Init /\ [][Next]_vars /\ WF_vars(Running(1))

Max(a, b) == IF a >= b THEN a ELSE b
\* the number of links nested in one another in a query node, at most
RECURSIVE LinkDepthFrom(_, _)
LinkDepth(node) == LinkDepthFrom(node, 1)
LinkDepthFrom(node, i) ==
    IF i > Len(node) THEN 0
    ELSE Max(IF node[i].kind = "Link" THEN 1 + LinkDepth(node[i].node) ELSE 0,
             LinkDepthFrom(node, i + 1))
\* the number of fields and links of a query node, at every depth
RECURSIVE QuerySizeFrom(_, _)
QuerySize(node) == QuerySizeFrom(node, 1)
QuerySizeFrom(node, i) ==
    IF i > Len(node) THEN 0
    ELSE 1 + QuerySize(node[i].node) + QuerySizeFrom(node, i + 1)
\* the product of the lengths (1 for an empty one) of the lists in a proxy
RECURSIVE ListSizesFrom(_, _)
ListSizes(pv) ==
    CASE pv.kind = "proxy" ->
            ListSizesFrom([i \in 1..Len(pv.items) |-> pv.items[i].items[2]], 1)
      [] pv.kind = "list" -> Max(1, Len(pv.items)) * ListSizesFrom(pv.items, 1)
      [] OTHER -> 1
ListSizesFrom(vals, i) ==
    IF i > Len(vals) THEN 1 ELSE ListSizes(vals[i]) * ListSizesFrom(vals, i + 1)

\* C26: every call of process that was entered ends, returning or raising,
\* also over record types that refer to themselves through TypeRef; while
\* it runs, the stacks are never deeper than 1 plus the depth of links in
\* the query, the call stack holds at most one visit_node and one
\* visit_link per level, and the number of visit_field and visit_link calls
\* is at most the size of the query times the sizes of the proxy's lists.
C26_ProcessTerminates ==
    /\ [](/\ Len(_type) <= 1 + LinkDepth(query)
          /\ Len(_data) <= 1 + LinkDepth(query)
          /\ Len(_res) <= 1 + LinkDepth(query)
          /\ Len(frames[1]) <= 1 + 2 * LinkDepth(query)
          /\ nvisits[1] <= QuerySize(query) * ListSizes(result))
    /\ (pc[1] = "entered" ~> pc[1] \in {"done", "error"})
\* a call returned after it went through the cyclic reference from X to X
\* for each of two items of a list: the three visits per item and the two
\* at the root were made
C26_Witness ==
    /\ query = <<Link("xs", "xs", QNest), Field("a", "a")>>
    /\ pc[1] = "done"
    /\ Len(DictGet(ret[1].items, PyStr("xs")).items) = 2
    /\ nvisits[1] = 2 + 2 * 3

(***************************************************************************)
(* TypeIdent over the types the type algebra builds: the constructors are  *)
(* parameterized as in SpecTypes, and TypeIdent(graph, input_mode).visit   *)
(* is called once the type is built, on the node built last or on a       *)
(* scalar or Any.  The graph's data_types are the records of Types.        *)
(***************************************************************************)
Identify ==
    \E input_mode \in BOOLEAN : \E obj \in {cur, Any, Float, Boolean} :
        \E r \in {TypeIdent_visit(Types, input_mode, obj)} :
            /\ call' = [fn |-> "TypeIdent.visit", ids |-> <<PyBool(input_mode), obj>>,
                        exc |-> r.exc, rows |-> <<r.val>>]
            /\ UNCHANGED <<schema, applied, at, ids, hops, bound, coro>>
            /\ UNCHANGED <<typeVars, projVars, valVars>>

InitIdent == TypesInit /\ ProjParked /\ ValParked /\ IntroParked
\* the declared type is built before its identity is asked for
BuildType == call = <<>> /\ Parameterize
RebuildType == call = <<>> /\ Reparameterize
NextIdent == BuildType \/ RebuildType \/ Identify
SpecIdent == InitIdent /\ [][NextIdent]_vars

\* no NON_NULL of the identity, at any depth, wraps a NON_NULL
RECURSIVE NoNonNullTwice(_)
NoNonNullTwice(ident) ==
    IF ident.kind # "ident" \/ ident.tag \notin {"NON_NULL", "LIST"} THEN TRUE
    ELSE /\ ~(IsIdent(ident, "NON_NULL") /\ IsIdent(ident.items[1], "NON_NULL"))
         /\ NoNonNullTwice(ident.items[1])
\* TypeIdent.visit returned an identity for obj
Identified(obj) ==
    /\ call # <<>> /\ call.fn = "TypeIdent.visit" /\ call.exc = ""
    /\ call.ids[2] = obj

\* C27: in an identity TypeIdent returns, in either mode, no NON_NULL wraps a
\* NON_NULL; the identity of an Optional type is no NON_NULL, and the
\* identity of Optional[Optional[T]] is the identity of Optional[T].
C27_NonNullNeverTwice ==
    \A obj \in {cur, Any, Float, Boolean} :
        Identified(obj) =>
            /\ NoNonNullTwice(call.rows[1])
            /\ IsInstance(obj, "OptionalMeta") =>
                  /\ ~IsIdent(call.rows[1], "NON_NULL")
                  /\ LET inner == DictGet(obj.items, PyStr("__type__"))
                     IN  IsInstance(inner, "OptionalMeta") =>
                             Ok(call.rows[1]) = TypeIdent_visit(Types, call.ids[1] = PyBool(TRUE), inner)
\* the identity of Optional[Optional[Sequence[String]]] was taken: a list of
\* non-null strings, itself nullable
C27_Witness ==
    /\ Identified(cur)
    /\ cur = OptionalOf(OptionalOf(SequenceOf(String)))
    /\ call.rows[1] = LIST(NON_NULL(SCALAR(ScalarString)))

\* the argument a DirectiveArgIdent names, in the schema's directives
DeclaredArgument(ident) ==
    ByName(ByName(schema.directives, ident.items[1]).args, ident.items[2])

\* C28: for identities DirectiveArgIdent(d, a), input_value_type_link
\* returns for each the type identity of argument a of directive d, and
\* input_value_info the name, description and default of that argument.
C28_DirectiveArgResolved ==
    ( /\ call.fn \in {"input_value_type_link", "input_value_info"}
      /\ call.exc = ""
      /\ \A i \in 1..Len(call.ids) : IsIdent(call.ids[i], "DirectiveArgIdent") ) =>
        /\ Len(call.rows) = Len(call.ids)
        /\ \A i \in 1..Len(call.ids) :
              IF call.fn = "input_value_type_link"
              THEN call.rows[i] = DeclaredArgument(call.ids[i]).type_ident
              ELSE /\ Col(call.rows[i], InputValueInfoFields, "name")
                         = DeclaredArgument(call.ids[i]).name
                   /\ Col(call.rows[i], InputValueInfoFields, "description")
                         = DeclaredArgument(call.ids[i]).description
                   /\ Col(call.rows[i], InputValueInfoFields, "defaultValue")
                         = DeclaredArgument(call.ids[i]).default_value

\* the names of the meta-schema's nodes: __Type, __Field, __InputValue,
\* __Directive, __EnumValue, __Schema
MetaTypeNames == {GRAPH[i].name : i \in {k \in 1..Len(GRAPH) : GRAPH[k].kind = "Node"}}
\* the graph apply returned holds the meta-schema's nodes, and __typename in
\* every node and in the Root
BoundWithMeta ==
    /\ bound.items # <<>>
    /\ MetaTypeNames \subseteq {bound.items[i].name : i \in 1..Len(bound.items)}
    /\ \A i \in 1..Len(bound.given) :
          \E k \in 1..Len(bound.items[i].fields) :
              bound.items[i].fields[k].name = N_typename

\* C29: the resolvers read the schema as it was given: no identity of
\* __schema.types names a node of the meta-schema, __type(name:) of such a
\* name resolves to Nothing, and no fields list holds __typename, though the
\* graph that apply returned holds all of them.
C29_MetaSchemaInvisible ==
    call.exc = "" =>
        /\ call.fn = "root_schema_types" =>
              \A i \in 1..Len(call.rows[1].items) :
                  call.rows[1].items[i].items[1] \notin MetaTypeNames
        /\ (call.fn = "type_link" /\ call.ids[1] \in MetaTypeNames) =>
              call.rows = <<Nothing>>
        /\ call.fn = "type_fields_link" =>
              \A i \in 1..Len(call.rows) : \A k \in 1..Len(call.rows[i].items) :
                  call.rows[i].items[k].items[2] # N_typename
\* __type(name: "__Type") was asked of a bound graph that holds the node
\* __Type, and resolved to Nothing
C29_Witness ==
    /\ BoundWithMeta
    /\ call.fn = "type_link" /\ call.exc = ""
    /\ call.ids = <<StrOf(<<"_", "_", "T", "y", "p", "e">>)>>
    /\ call.rows = <<Nothing>>

(***************************************************************************)
(* Resolver sharing under BindToSchema and MakeAsync.                      *)
(***************************************************************************)
\* the meta-schema's part of the graph apply returned: GRAPH as
\* __introspection_graph__ transformed it
BoundMeta == SubSeq(bound.items, Len(bound.given) + 1, Len(bound.items))
\* the places of the fields and links of GRAPH, and the member at a place
Places == UNION {{<<i, j>> : j \in 1..Len(GRAPH[i].fields)} : i \in 1..Len(GRAPH)}
MemberAt(items, p) == items[p[1]].fields[p[2]]

====
